---- MODULE Spec2Model ----
(***************************************************************************)
(* MINI DOOM CLI (src/minidoom.c): the game-state machine, the player,     *)
(* the sprite store, the projectile pool and the main loop.                *)
(*                                                                         *)
(* Representation of the C floats (fixed point, exact integer arithmetic): *)
(*   positions and distances   1/SCALE of a map cell (centi-cells)         *)
(*   clock() and deltaTime     clock ticks, CLOCKS_PER_SEC per second      *)
(*   angles                    milliradians, TWO_PI is 2*M_PI              *)
(*   sin/cos, dirX/dirY        thousandths (TRIG_ONE is 1.0)               *)
(* sqrtf(a) < r is evaluated as a < r*r, (int)f truncates toward zero.     *)
(***************************************************************************)
EXTENDS Integers, Sequences, FiniteSets, TLC

\* ------------------------------------------------------------ constants
MAP_WIDTH == 20
MAP_HEIGHT == 20
MAX_SPRITES == 20
MAX_PROJECTILES == 5
PLAYER_MOVE_SPEED_BASE == 3
PLAYER_ROT_SPEED_BASE == 2500
SCREEN_WIDTH == 80
SCREEN_HEIGHT == 25
MAX_RENDER_DISTANCE == 15
SCALE == 100
CLOCKS_PER_SEC == 100
TRIG_ONE == 1000
TWO_PI == 6283
M_PI == 3142
HALF_PI == 1571
QUARTER_PI == 785

\* ------------------------------------------------------------ bounds
\* Main-loop iterations explored from each initial state.
MaxTicks == 3
\* The two elapsed times (clock ticks) a loop iteration may measure.
DtShort == 10
DtLong == 20
\* Loop iterations followed when the frames are examined column by column.
RenderTicks == 2
\* Loop iterations of a flight: keys are pressed in the first FireTicks of
\* them, and FlightTicks of them are followed.
FireTicks == 2
FlightTicks == 32
\* The iterations followed from a state late in a game.
EndgameTicks == 2
DtSet == {DtShort, DtLong}

\* ------------------------------------------------------------ the map
\* g_map[y][x] is MapRows[y + 1][x + 1].
MapRows ==
  <<
     << "#", "#", "#", "#", "#", "#", "#", "#", "#", "#", "#", "#", "#", "#", "#", "#", "#", "#", "#", "#" >>,
     << "#", ".", ".", ".", ".", ".", ".", ".", ".", ".", ".", ".", ".", ".", ".", ".", ".", ".", "C", "#" >>,
     << "#", ".", ".", "#", "#", "#", "#", "#", "#", "#", "#", ".", ".", ".", ".", "#", ".", ".", ".", "#" >>,
     << "#", ".", ".", "#", ".", ".", ".", ".", ".", ".", ".", "#", ".", ".", ".", "#", ".", ".", ".", "#" >>,
     << "#", ".", ".", "#", ".", ".", ".", "C", ".", ".", ".", "#", ".", ".", ".", "#", ".", ".", ".", "#" >>,
     << "#", ".", ".", "#", ".", ".", ".", "#", ".", ".", ".", "#", ".", ".", ".", "#", ".", ".", ".", "#" >>,
     << "#", ".", ".", "#", ".", ".", ".", ".", ".", ".", ".", "#", ".", ".", ".", "#", ".", ".", ".", "#" >>,
     << "#", ".", ".", "#", "#", "#", "#", "#", "#", "#", "#", ".", ".", ".", ".", "#", ".", ".", ".", "#" >>,
     << "#", ".", ".", ".", ".", ".", ".", ".", ".", "E", ".", ".", ".", ".", ".", ".", ".", ".", ".", "#" >>,
     << "#", ".", ".", ".", ".", "#", "#", "#", "#", "#", "#", "#", ".", ".", ".", ".", ".", ".", ".", "#" >>,
     << "#", ".", ".", ".", ".", "#", ".", ".", ".", ".", ".", "#", ".", ".", ".", ".", ".", ".", ".", "#" >>,
     << "#", ".", ".", ".", ".", "#", ".", ".", ".", ".", ".", "#", ".", ".", ".", ".", ".", ".", ".", "#" >>,
     << "#", ".", ".", ".", ".", "#", ".", ".", ".", ".", ".", "#", ".", ".", ".", ".", ".", ".", ".", "#" >>,
     << "#", ".", ".", ".", ".", "#", "#", "#", "#", "#", "#", "#", ".", ".", ".", ".", ".", ".", ".", "#" >>,
     << "#", ".", ".", ".", ".", ".", ".", ".", ".", ".", ".", ".", ".", ".", ".", ".", ".", ".", ".", "#" >>,
     << "#", ".", ".", ".", ".", ".", ".", ".", ".", "C", ".", ".", ".", ".", ".", ".", ".", ".", ".", "#" >>,
     << "#", ".", ".", ".", "#", "#", "#", "#", "#", "#", "#", "#", ".", ".", ".", ".", ".", ".", ".", "#" >>,
     << "#", ".", ".", ".", "#", ".", ".", ".", ".", ".", ".", "#", ".", ".", ".", ".", ".", ".", ".", "#" >>,
     << "#", "E", ".", ".", "#", ".", ".", ".", ".", ".", ".", "#", ".", ".", ".", ".", ".", ".", "E", "#" >>,
     << "#", "#", "#", "#", "#", "#", "#", "#", "#", "#", "#", "#", "#", "#", "#", "#", "#", "#", "#", "#" >>
  >>


\* ------------------------------------------------------------ arithmetic
\* C division of signed operands: the quotient is truncated toward zero.
SDiv(a, b) == IF a >= 0 THEN a \div b ELSE -((-a) \div b)

\* (int)f for a coordinate f: the cell index, truncated toward zero.
Trunc(f) == SDiv(f, SCALE)

Sq(a) == a * a

\* floor(sqrt(n)), by bisection on lo..hi.
RECURSIVE ISqrtIn(_, _, _)
ISqrtIn(n, lo, hi) ==
  IF lo >= hi THEN lo
  ELSE LET mid == (lo + hi + 1) \div 2
       IN  IF mid * mid <= n THEN ISqrtIn(n, mid, hi) ELSE ISqrtIn(n, lo, mid - 1)

ISqrt(n) == ISqrtIn(n, 0, (MAP_WIDTH + MAP_HEIGHT) * SCALE)

\* sin on the first quadrant, 0..HALF_PI milliradians, in thousandths:
\* x - x^3/6 + x^5/120 - x^7/5040.
SinQ(x) ==
  LET x2 == (x * x) \div TRIG_ONE
      x3 == (x2 * x) \div TRIG_ONE
      x5 == (x3 * x2) \div TRIG_ONE
      x7 == (x5 * x2) \div TRIG_ONE
  IN  x - (x3 \div 6) + (x5 \div 120) - (x7 \div 5040)

\* sin(a) and cos(a) for an angle a in 0..TWO_PI-1.
Sin(a) ==
  IF a <= HALF_PI THEN SinQ(a)
  ELSE IF a <= M_PI THEN SinQ(M_PI - a)
  ELSE IF a <= M_PI + HALF_PI THEN -SinQ(a - M_PI)
  ELSE -SinQ(TWO_PI - a)

Cos(a) == Sin((a + HALF_PI) % TWO_PI)

\* fmodf(a, 2*M_PI) followed by "if (angle < 0) angle += 2*M_PI".
NormalizeAngle(a) ==
  LET m == IF a >= 0 THEN a % TWO_PI ELSE -((-a) % TWO_PI)
  IN  IF m < 0 THEN m + TWO_PI ELSE m

\* ------------------------------------------------------------ map queries
InGrid(mx, my) == mx >= 0 /\ mx < MAP_WIDTH /\ my >= 0 /\ my < MAP_HEIGHT

\* g_map[my][mx] on a map m.
MapAt(m, mx, my) == m[my + 1][mx + 1]


\* ------------------------------------------------------------ state
VARIABLES
  g_map,            \* char g_map[MAP_HEIGHT][MAP_WIDTH]
  g_currentState,   \* GameState g_currentState
  g_player,         \* Player g_player
  g_sprites,        \* g_sprites[0 .. g_numSprites-1], slot i at index i + 1
  g_projectiles,    \* g_projectiles[0 .. MAX_PROJECTILES-1]
  g_lastFrameTime,  \* clock() as read at the top of the current iteration
  deltaTime,        \* main's deltaTime of the current iteration
  input,            \* processInput's input of the current iteration
  pc,               \* where main's loop stands
  tick,             \* completed iterations of main's loop
  screen            \* which screen the last iteration rendered

vars == << g_map, g_currentState, g_player, g_sprites, g_projectiles,
           g_lastFrameTime, deltaTime, input, pc, tick, screen >>

GAME_STATE_MENU == "MENU"
GAME_STATE_PLAYING == "PLAYING"
GAME_STATE_GAME_OVER == "GAME_OVER"
GAME_STATE_WIN == "WIN"

\* read() delivered no byte: input keeps its initial value 0.
NoKey == "none"

\* The bytes the terminal may deliver: every command in lower case, the
\* state-machine commands also in upper case, and one unbound key.
Keys == { "w", "s", "a", "d", "q", "e", "f", "x", "X", "p", "P", "r", "R", "z", NoKey }

\* Zero-initialised globals, as at process start.
ZeroPlayer ==
  [ x |-> 0, y |-> 0, angle |-> 0, health |-> 0, score |-> 0,
    moveSpeed |-> 0, rotSpeed |-> 0 ]

ZeroProjectile ==
  [ x |-> 0, y |-> 0, dirX |-> 0, dirY |-> 0, speed |-> 0, isActive |-> FALSE ]

\* ------------------------------------------------------------ initializeGame
NewCollectible(x, y) ==
  [ x |-> x * SCALE + SCALE \div 2, y |-> y * SCALE + SCALE \div 2,
    character |-> "C", isActive |-> TRUE, distToPlayer |-> 0, isEnemy |-> FALSE,
    health |-> 0, attackCooldown |-> 0, lastAttackTime |-> 0 ]

NewEnemy(x, y) ==
  [ x |-> x * SCALE + SCALE \div 2, y |-> y * SCALE + SCALE \div 2,
    character |-> "E", isActive |-> TRUE, distToPlayer |-> 0, isEnemy |-> TRUE,
    health |-> 50, attackCooldown |-> 2, lastAttackTime |-> 0 ]

\* The cells holding a sprite marker, cell k = y * MAP_WIDTH + x.
MarkerCells(m) ==
  { k \in 0 .. MAP_WIDTH * MAP_HEIGHT - 1 :
      MapAt(m, k % MAP_WIDTH, k \div MAP_WIDTH) \in {"C", "E"} }

\* The row-major scan: the marker cells in increasing k, while
\* g_numSprites < MAX_SPRITES.
RECURSIVE ScanSprites(_, _, _)
ScanSprites(m, cells, acc) ==
  IF cells = {} \/ Len(acc) >= MAX_SPRITES THEN acc
  ELSE LET k == CHOOSE c \in cells : \A o \in cells : c <= o
           x == k % MAP_WIDTH
           y == k \div MAP_WIDTH
       IN  ScanSprites(m, cells \ {k},
                       Append(acc, IF MapAt(m, x, y) = "C" THEN NewCollectible(x, y)
                                   ELSE NewEnemy(x, y)))

initializeSprites(m) == ScanSprites(m, MarkerCells(m), << >>)

StartPlayer ==
  [ x |-> 2 * SCALE + SCALE \div 2, y |-> 2 * SCALE + SCALE \div 2,
    angle |-> QUARTER_PI, health |-> 100, score |-> 0,
    moveSpeed |-> PLAYER_MOVE_SPEED_BASE, rotSpeed |-> PLAYER_ROT_SPEED_BASE ]

\* initializeGame without the "Reset projectiles" loop.
initializeGame_KeepProjectiles(m, projs) ==
  [ player |-> StartPlayer,
    sprites |-> initializeSprites(m),
    projectiles |-> projs ]

\* initializeGame: the new player, sprites and projectiles.
initializeGame(m, projs) ==
  [ player |-> StartPlayer,
    sprites |-> initializeSprites(m),
    projectiles |-> [ i \in DOMAIN projs |-> [ projs[i] EXCEPT !.isActive = FALSE ] ] ]

\* ------------------------------------------------------------ fireProjectile
FreeSlots(projs) == { i \in DOMAIN projs : ~projs[i].isActive }

\* fireProjectile reusing slot 0 when no slot is free.
fireProjectile_ReuseFirst(projs, player) ==
  LET i == IF FreeSlots(projs) = {} THEN 1
           ELSE CHOOSE k \in FreeSlots(projs) : \A j \in FreeSlots(projs) : k <= j
  IN  [ projs EXCEPT ![i] =
          [ x |-> player.x, y |-> player.y,
            dirX |-> Sin(player.angle), dirY |-> Cos(player.angle),
            speed |-> 10, isActive |-> TRUE ] ]

\* fireProjectile taking the last free slot instead of the first.
fireProjectile_LastFree(projs, player) ==
  IF FreeSlots(projs) = {} THEN projs
  ELSE LET i == CHOOSE k \in FreeSlots(projs) : \A j \in FreeSlots(projs) : k >= j
       IN  [ projs EXCEPT ![i] =
               [ x |-> player.x, y |-> player.y,
                 dirX |-> Sin(player.angle), dirY |-> Cos(player.angle),
                 speed |-> 10, isActive |-> TRUE ] ]

fireProjectile(projs, player) ==
  IF FreeSlots(projs) = {} THEN projs
  ELSE LET i == CHOOSE k \in FreeSlots(projs) : \A j \in FreeSlots(projs) : k <= j
       IN  [ projs EXCEPT ![i] =
               [ x |-> player.x, y |-> player.y,
                 dirX |-> Sin(player.angle), dirY |-> Cos(player.angle),
                 speed |-> 10, isActive |-> TRUE ] ]


\* ------------------------------------------------------------ processInput
\* The collision test of one axis: the target cell is in the grid and no wall.
\* CellOpen without the wall test: every cell of the grid is open.
CellOpen_GridOnly(m, mx, my) == InGrid(mx, my)

CellOpen(m, mx, my) == InGrid(mx, my) /\ MapAt(m, mx, my) # "#"

\* PlayingKeyState handling the lower-case 'x' only.
PlayingKeyState_LowerOnly(key) ==
  IF key = "x" THEN GAME_STATE_MENU ELSE GAME_STATE_PLAYING

\* case 'x': case 'X': of the key switch of state PLAYING ("Exit to menu");
\* every other key leaves the state PLAYING.
PlayingKeyState(key) ==
  IF key \in {"x", "X"} THEN GAME_STATE_MENU ELSE GAME_STATE_PLAYING

\* PlayingInput with each axis tested against the cell the whole move ends in
\* as well: no move crosses the corner of a wall cell.
PlayingInput_JointTest(m, player, projs, key, dt) ==
  LET moveAmount == (player.moveSpeed * dt * SCALE) \div CLOCKS_PER_SEC
      rotAmount  == (player.rotSpeed * dt) \div CLOCKS_PER_SEC
      playerDirX == Sin(player.angle)
      playerDirY == Cos(player.angle)
      fwdX  == SDiv(playerDirX * moveAmount, TRIG_ONE)
      fwdY  == SDiv(playerDirY * moveAmount, TRIG_ONE)
      sideX == SDiv(Cos(player.angle) * moveAmount, TRIG_ONE)
      sideY == SDiv(Sin(player.angle) * moveAmount, TRIG_ONE)
      newPlayerX ==
        IF key \in {"w", "W"} THEN player.x + fwdX
        ELSE IF key \in {"s", "S"} THEN player.x - fwdX
        ELSE IF key \in {"a", "A"} THEN player.x + sideX
        ELSE IF key \in {"d", "D"} THEN player.x - sideX
        ELSE player.x
      newPlayerY ==
        IF key \in {"w", "W"} THEN player.y + fwdY
        ELSE IF key \in {"s", "S"} THEN player.y - fwdY
        ELSE IF key \in {"a", "A"} THEN player.y - sideY
        ELSE IF key \in {"d", "D"} THEN player.y + sideY
        ELSE player.y
      turned ==
        IF key \in {"q", "Q"} THEN player.angle - rotAmount
        ELSE IF key \in {"e", "E"} THEN player.angle + rotAmount
        ELSE player.angle
      currentMapX == Trunc(player.x)
      currentMapY == Trunc(player.y)
      targetMapX  == Trunc(newPlayerX)
      targetMapY  == Trunc(newPlayerY)
      movedX == IF CellOpen(m, targetMapX, currentMapY)
                   /\ CellOpen(m, targetMapX, targetMapY)
                  THEN newPlayerX ELSE player.x
      movedY == IF CellOpen(m, currentMapX, targetMapY)
                   /\ CellOpen(m, targetMapX, targetMapY)
                  THEN newPlayerY ELSE player.y
  IN  [ player |-> [ player EXCEPT !.x = movedX, !.y = movedY,
                                   !.angle = NormalizeAngle(turned) ],
        projectiles |-> IF key \in {"f", "F"} THEN fireProjectile(projs, player)
                        ELSE projs,
        state |-> PlayingKeyState(key) ]

\* case GAME_STATE_PLAYING with health > 0: the key switch, the two axis
\* tests and the angle normalisation.  dt is deltaTime.
PlayingInput(m, player, projs, key, dt) ==
  LET moveAmount == (player.moveSpeed * dt * SCALE) \div CLOCKS_PER_SEC
      rotAmount  == (player.rotSpeed * dt) \div CLOCKS_PER_SEC
      playerDirX == Sin(player.angle)
      playerDirY == Cos(player.angle)
      fwdX  == SDiv(playerDirX * moveAmount, TRIG_ONE)
      fwdY  == SDiv(playerDirY * moveAmount, TRIG_ONE)
      sideX == SDiv(Cos(player.angle) * moveAmount, TRIG_ONE)
      sideY == SDiv(Sin(player.angle) * moveAmount, TRIG_ONE)
      newPlayerX ==
        IF key \in {"w", "W"} THEN player.x + fwdX
        ELSE IF key \in {"s", "S"} THEN player.x - fwdX
        ELSE IF key \in {"a", "A"} THEN player.x + sideX
        ELSE IF key \in {"d", "D"} THEN player.x - sideX
        ELSE player.x
      newPlayerY ==
        IF key \in {"w", "W"} THEN player.y + fwdY
        ELSE IF key \in {"s", "S"} THEN player.y - fwdY
        ELSE IF key \in {"a", "A"} THEN player.y - sideY
        ELSE IF key \in {"d", "D"} THEN player.y + sideY
        ELSE player.y
      turned ==
        IF key \in {"q", "Q"} THEN player.angle - rotAmount
        ELSE IF key \in {"e", "E"} THEN player.angle + rotAmount
        ELSE player.angle
      currentMapX == Trunc(player.x)
      currentMapY == Trunc(player.y)
      targetMapX  == Trunc(newPlayerX)
      targetMapY  == Trunc(newPlayerY)
      movedX == IF CellOpen(m, targetMapX, currentMapY) THEN newPlayerX ELSE player.x
      movedY == IF CellOpen(m, currentMapX, targetMapY) THEN newPlayerY ELSE player.y
  IN  [ player |-> [ player EXCEPT !.x = movedX, !.y = movedY,
                                   !.angle = NormalizeAngle(turned) ],
        projectiles |-> IF key \in {"f", "F"} THEN fireProjectile(projs, player)
                        ELSE projs,
        state |-> PlayingKeyState(key) ]


\* ------------------------------------------------------------ updateSprites
\* Radii compared with sqrtf(..) in the code, in position units.
PICKUP_RADIUS == (7 * SCALE) \div 10
TOO_CLOSE == (15 * SCALE) \div 10
HIT_RADIUS == (7 * SCALE) \div 10

Dist2(ax, ay, bx, by) == Sq(ax - bx) + Sq(ay - by)

\* The collectible branch for one active collectible s.
UpdateCollectible(s, player, w) ==
  IF Dist2(player.x, player.y, s.x, s.y) < Sq(PICKUP_RADIUS)
    THEN [ sprite |-> [ s EXCEPT !.isActive = FALSE ],
           health |-> w.health, score |-> w.score + 10 ]
    ELSE [ sprite |-> s, health |-> w.health, score |-> w.score ]

\* EnemyMove without the wall test.
EnemyMove_NoWallTest(m, s, player, dt) ==
  LET dx == player.x - s.x
      dy == player.y - s.y
      d2 == dx * dx + dy * dy
      dist == ISqrt(d2)
      moveAmount == (1 * dt * SCALE) \div CLOCKS_PER_SEC
      nx == s.x + SDiv(dx * moveAmount, dist)
      ny == s.y + SDiv(dy * moveAmount, dist)
  IN  IF d2 > Sq(TOO_CLOSE) THEN [ s EXCEPT !.x = nx, !.y = ny ] ELSE s

\* The enemy's step toward the player and the wall test that takes it back.
EnemyMove(m, s, player, dt) ==
  LET dx == player.x - s.x
      dy == player.y - s.y
      d2 == dx * dx + dy * dy
      dist == ISqrt(d2)
      moveAmount == (1 * dt * SCALE) \div CLOCKS_PER_SEC
      nx == s.x + SDiv(dx * moveAmount, dist)
      ny == s.y + SDiv(dy * moveAmount, dist)
  IN  IF d2 > Sq(TOO_CLOSE)
        THEN IF ~InGrid(Trunc(nx), Trunc(ny)) \/ MapAt(m, Trunc(nx), Trunc(ny)) = "#"
               THEN s
               ELSE [ s EXCEPT !.x = nx, !.y = ny ]
        ELSE s

\* EnemyAttacks with ">=" for ">" in the cooldown test.
EnemyAttacks_AtCooldown(s, player, now) ==
  /\ Dist2(player.x, player.y, s.x, s.y) < Sq(TOO_CLOSE)
  /\ now - s.lastAttackTime >= s.attackCooldown * CLOCKS_PER_SEC

\* The attack test: dist is the distance measured before the step.
EnemyAttacks(s, player, now) ==
  /\ Dist2(player.x, player.y, s.x, s.y) < Sq(TOO_CLOSE)
  /\ now - s.lastAttackTime > s.attackCooldown * CLOCKS_PER_SEC

\* The enemy branch for one active enemy s; now is clock().
UpdateEnemy(m, s, player, w, dt, now) ==
  LET moved == EnemyMove(m, s, player, dt)
  IN  IF EnemyAttacks(s, player, now)
        THEN [ sprite |-> [ moved EXCEPT !.lastAttackTime = now ],
               health |-> w.health - 10, score |-> w.score ]
        ELSE [ sprite |-> moved, health |-> w.health, score |-> w.score ]

\* UpdateSprite with the isActive test on the enemy branch only.
UpdateSprite_InactivePickup(m, i, player, w, dt, now) ==
  LET s == w.sprites[i]
      r == IF ~s.isEnemy THEN UpdateCollectible(s, player, w)
           ELSE IF ~s.isActive THEN [ sprite |-> s, health |-> w.health, score |-> w.score ]
           ELSE UpdateEnemy(m, s, player, w, dt, now)
  IN  [ sprites |-> [ w.sprites EXCEPT ![i] = r.sprite ],
        health |-> r.health, score |-> r.score ]

\* The loop body for slot i; w carries the sprites, health and score so far.
UpdateSprite(m, i, player, w, dt, now) ==
  LET s == w.sprites[i]
      r == IF ~s.isActive THEN [ sprite |-> s, health |-> w.health, score |-> w.score ]
           ELSE IF ~s.isEnemy THEN UpdateCollectible(s, player, w)
           ELSE UpdateEnemy(m, s, player, w, dt, now)
  IN  [ sprites |-> [ w.sprites EXCEPT ![i] = r.sprite ],
        health |-> r.health, score |-> r.score ]

RECURSIVE UpdateSpritesFrom(_, _, _, _, _, _)
UpdateSpritesFrom(m, i, player, w, dt, now) ==
  IF i > Len(w.sprites) THEN w
  ELSE UpdateSpritesFrom(m, i + 1, player, UpdateSprite(m, i, player, w, dt, now), dt, now)

\* updateSprites(deltaTime): the new sprites and the player's health and score.
updateSprites(m, sprites, player, dt, now) ==
  UpdateSpritesFrom(m, 1, player,
                    [ sprites |-> sprites, health |-> player.health, score |-> player.score ],
                    dt, now)

\* ------------------------------------------------------------ updateProjectiles
\* HitSet without the isActive test of the enemy loop.
HitSet_AnyEnemy(sprites, p) ==
  { j \in DOMAIN sprites :
      /\ sprites[j].isEnemy
      /\ Dist2(p.x, p.y, sprites[j].x, sprites[j].y) < Sq(HIT_RADIUS) }

\* The enemies projectile p (already advanced) collides with.
HitSet(sprites, p) ==
  { j \in DOMAIN sprites :
      /\ sprites[j].isActive
      /\ sprites[j].isEnemy
      /\ Dist2(p.x, p.y, sprites[j].x, sprites[j].y) < Sq(HIT_RADIUS) }

\* HitFirstEnemy without the break: every enemy in reach takes the damage.
HitFirstEnemy_NoBreak(sprites, score, p) ==
  LET H == HitSet(sprites, p)
      dead == { j \in H : sprites[j].health - 25 <= 0 }
  IN  [ sprites |-> [ j \in DOMAIN sprites |->
                       IF j \in H
                         THEN [ sprites[j] EXCEPT !.health = @ - 25,
                                                  !.isActive = j \notin dead ]
                         ELSE sprites[j] ],
        score |-> score + 50 * Cardinality(dead),
        hit |-> H # {} ]

\* HitFirstEnemy adding the 50 points at every hit, deadly or not.
HitFirstEnemy_ScorePerHit(sprites, score, p) ==
  IF HitSet(sprites, p) = {}
    THEN [ sprites |-> sprites, score |-> score, hit |-> FALSE ]
    ELSE LET j == CHOOSE k \in HitSet(sprites, p) : \A l \in HitSet(sprites, p) : k <= l
             h == sprites[j].health - 25
         IN  [ sprites |-> [ sprites EXCEPT ![j] =
                               [ @ EXCEPT !.health = h,
                                          !.isActive = IF h <= 0 THEN FALSE ELSE @ ] ],
               score |-> score + 50,
               hit |-> TRUE ]

\* The enemy loop of one projectile: the first enemy hit takes the damage.
HitFirstEnemy(sprites, score, p) ==
  IF HitSet(sprites, p) = {}
    THEN [ sprites |-> sprites, score |-> score, hit |-> FALSE ]
    ELSE LET j == CHOOSE k \in HitSet(sprites, p) : \A l \in HitSet(sprites, p) : k <= l
             h == sprites[j].health - 25
         IN  [ sprites |-> [ sprites EXCEPT ![j] =
                               [ @ EXCEPT !.health = h,
                                          !.isActive = IF h <= 0 THEN FALSE ELSE @ ] ],
               score |-> IF h <= 0 THEN score + 50 ELSE score,
               hit |-> TRUE ]

\* Advance leaving the projectile where it is.
Advance_NoMotion(p, dt) == p

\* Projectile p after "position += direction * speed * deltaTime".
Advance(p, dt) ==
  [ p EXCEPT !.x = @ + SDiv(p.dirX * p.speed * dt * SCALE, TRIG_ONE * CLOCKS_PER_SEC),
             !.y = @ + SDiv(p.dirY * p.speed * dt * SCALE, TRIG_ONE * CLOCKS_PER_SEC) ]

\* The loop body for projectile slot i.
UpdateProjectile(m, i, w, dt) ==
  IF ~w.projectiles[i].isActive THEN w
  ELSE LET p == Advance(w.projectiles[i], dt)
           wall == ~InGrid(Trunc(p.x), Trunc(p.y)) \/ MapAt(m, Trunc(p.x), Trunc(p.y)) = "#"
           h == HitFirstEnemy(w.sprites, w.score, p)
       IN  [ projectiles |-> [ w.projectiles EXCEPT ![i] =
                                 [ p EXCEPT !.isActive = ~(wall \/ h.hit) ] ],
             sprites |-> h.sprites,
             score |-> h.score ]

RECURSIVE UpdateProjectilesFrom(_, _, _, _)
UpdateProjectilesFrom(m, i, w, dt) ==
  IF i > MAX_PROJECTILES THEN w
  ELSE UpdateProjectilesFrom(m, i + 1, UpdateProjectile(m, i, w, dt), dt)

\* updateProjectiles(deltaTime): the new projectiles, sprites and score.
updateProjectiles(m, projs, sprites, score, dt) ==
  UpdateProjectilesFrom(m, 1, [ projectiles |-> projs, sprites |-> sprites, score |-> score ], dt)


\* ------------------------------------------------------------ updateGame
NoActiveCollectible(sprites) ==
  \A i \in DOMAIN sprites : ~(sprites[i].isActive /\ ~sprites[i].isEnemy)

NoEnemyAlive(sprites) ==
  \A i \in DOMAIN sprites : ~(sprites[i].isActive /\ sprites[i].isEnemy)

\* updateGame with the game-over test on the health before the update.
updateGame_StaleHealth(m, player, sprites, projs, dt, now) ==
  LET us == updateSprites(m, sprites, player, dt, now)
      up == updateProjectiles(m, projs, us.sprites, us.score, dt)
  IN  [ player |-> [ player EXCEPT !.health = us.health, !.score = up.score ],
        sprites |-> up.sprites,
        projectiles |-> up.projectiles,
        state |-> IF player.health <= 0 THEN GAME_STATE_GAME_OVER
                  ELSE IF NoActiveCollectible(up.sprites) /\ NoEnemyAlive(up.sprites)
                    THEN GAME_STATE_WIN
                  ELSE GAME_STATE_PLAYING ]

\* updateGame with the win test on the sprites before updateProjectiles.
updateGame_EarlyWinTest(m, player, sprites, projs, dt, now) ==
  LET us == updateSprites(m, sprites, player, dt, now)
      up == updateProjectiles(m, projs, us.sprites, us.score, dt)
  IN  [ player |-> [ player EXCEPT !.health = us.health, !.score = up.score ],
        sprites |-> up.sprites,
        projectiles |-> up.projectiles,
        state |-> IF us.health <= 0 THEN GAME_STATE_GAME_OVER
                  ELSE IF NoActiveCollectible(us.sprites) /\ NoEnemyAlive(us.sprites)
                    THEN GAME_STATE_WIN
                  ELSE GAME_STATE_PLAYING ]

\* updateGame with the win test ahead of the game-over test.
updateGame_WinFirst(m, player, sprites, projs, dt, now) ==
  LET us == updateSprites(m, sprites, player, dt, now)
      up == updateProjectiles(m, projs, us.sprites, us.score, dt)
  IN  [ player |-> [ player EXCEPT !.health = us.health, !.score = up.score ],
        sprites |-> up.sprites,
        projectiles |-> up.projectiles,
        state |-> IF NoActiveCollectible(up.sprites) /\ NoEnemyAlive(up.sprites)
                    THEN GAME_STATE_WIN
                  ELSE IF us.health <= 0 THEN GAME_STATE_GAME_OVER
                  ELSE GAME_STATE_PLAYING ]

\* updateGame(deltaTime) in state PLAYING: sprites, projectiles, then the
\* game-over test and the win test.
updateGame(m, player, sprites, projs, dt, now) ==
  LET us == updateSprites(m, sprites, player, dt, now)
      up == updateProjectiles(m, projs, us.sprites, us.score, dt)
  IN  [ player |-> [ player EXCEPT !.health = us.health, !.score = up.score ],
        sprites |-> up.sprites,
        projectiles |-> up.projectiles,
        state |-> IF us.health <= 0 THEN GAME_STATE_GAME_OVER
                  ELSE IF NoActiveCollectible(up.sprites) /\ NoEnemyAlive(up.sprites)
                    THEN GAME_STATE_WIN
                  ELSE GAME_STATE_PLAYING ]

\* ------------------------------------------------------------ renderGame
\* The distance pass: distToPlayer is kept squared here (same order as
\* sqrtf of it); an inactive sprite is marked -1.
WithDistances(sprites, player) ==
  [ i \in DOMAIN sprites |->
      [ sprites[i] EXCEPT !.distToPlayer =
          IF sprites[i].isActive
            THEN Dist2(player.x, player.y, sprites[i].x, sprites[i].y)
            ELSE -1 ] ]

\* ---- the wall pass: one ray per screen column x_col in 0 .. SCREEN_WIDTH-1.
\* g_zBuffer and the screen buffers are written by renderGame and read by
\* renderGame only, after it has written them: they are functions of the
\* map, the player, the sprites and the projectiles at the time of the call.
Abs(a) == IF a < 0 THEN -a ELSE a

\* cameraX = 2 * (x_col / SCREEN_WIDTH) - 1, in thousandths.
CameraX(col) == (2 * col * TRIG_ONE) \div SCREEN_WIDTH - TRIG_ONE

RayDirX(player, col) ==
  Sin(player.angle) + SDiv(Cos(player.angle) * CameraX(col), TRIG_ONE)

RayDirY(player, col) ==
  Cos(player.angle) - SDiv(Sin(player.angle) * CameraX(col), TRIG_ONE)

\* "sideDistX < sideDistY" after kx and ky additions of deltaDist; fx and fy
\* are the initial offsets in position units.  deltaDist is 1e30 for a zero
\* ray component, so that side loses unless its distance is exactly 0.
SideXNearer(fx, kx, rdx, fy, ky, rdy) ==
  IF rdx = 0 THEN FALSE
  ELSE IF rdy = 0 THEN fy + SCALE * ky > 0
  ELSE (fx + SCALE * kx) * Abs(rdy) < (fy + SCALE * ky) * Abs(rdx)

\* The DDA loop leaving after its first pass, wall or not.
DDA_OnePass(m, r, fx, fy, rdx, rdy, stepX, stepY) ==
  LET n == IF SideXNearer(fx, r.kx, rdx, fy, r.ky, rdy)
             THEN [ r EXCEPT !.kx = @ + 1, !.mapX = @ + stepX, !.side = 0 ]
             ELSE [ r EXCEPT !.ky = @ + 1, !.mapY = @ + stepY, !.side = 1 ]
  IN  IF ~InGrid(n.mapX, n.mapY) THEN [ n EXCEPT !.outOfBounds = TRUE ] ELSE n

\* The DDA loop "while (hit == 0)": r holds mapX, mapY, the additions made
\* to each sideDist, side, and whether the loop ended out of the grid.
RECURSIVE DDA(_, _, _, _, _, _, _, _)
DDA(m, r, fx, fy, rdx, rdy, stepX, stepY) ==
  LET n == IF SideXNearer(fx, r.kx, rdx, fy, r.ky, rdy)
             THEN [ r EXCEPT !.kx = @ + 1, !.mapX = @ + stepX, !.side = 0 ]
             ELSE [ r EXCEPT !.ky = @ + 1, !.mapY = @ + stepY, !.side = 1 ]
  IN  IF ~InGrid(n.mapX, n.mapY) THEN [ n EXCEPT !.outOfBounds = TRUE ]
      ELSE IF MapAt(m, n.mapX, n.mapY) = "#" THEN n
      ELSE DDA(m, n, fx, fy, rdx, rdy, stepX, stepY)

\* CastRay storing the distance to the wall face the DDA stopped at, as
\* computed by the two formulas of perpWallDist, without the two clamps.
CastRay_FaceUnclamped(m, player, col) ==
  LET rdx == RayDirX(player, col)
      rdy == RayDirY(player, col)
      mapX == Trunc(player.x)
      mapY == Trunc(player.y)
      stepX == IF rdx < 0 THEN -1 ELSE 1
      stepY == IF rdy < 0 THEN -1 ELSE 1
      fx == IF rdx < 0 THEN player.x - mapX * SCALE ELSE mapX * SCALE + SCALE - player.x
      fy == IF rdy < 0 THEN mapY * SCALE + SCALE - player.y ELSE player.y - mapY * SCALE
      r == DDA(m, [ mapX |-> mapX, mapY |-> mapY, kx |-> 0, ky |-> 0, side |-> 1,
                    outOfBounds |-> FALSE ],
               fx, fy, rdx, rdy, stepX, stepY)
      maxDist == MAX_RENDER_DISTANCE * SCALE
      afterLoop == IF r.outOfBounds THEN maxDist ELSE 0
      facePerp ==
        IF r.side = 0
          THEN IF rdx = 0 THEN maxDist
               ELSE SDiv((r.mapX * SCALE - player.x + ((1 - stepX) \div 2) * SCALE) * TRIG_ONE, rdx)
          ELSE IF rdy = 0 THEN maxDist
               ELSE SDiv((r.mapY * SCALE - player.y + ((1 - stepY) \div 2) * SCALE) * TRIG_ONE, rdy)
      perp == IF afterLoop = maxDist THEN afterLoop ELSE facePerp
      clamped == perp
  IN  [ mapX |-> r.mapX, mapY |-> r.mapY, side |-> r.side, steps |-> r.kx + r.ky,
        outOfBounds |-> r.outOfBounds, perpWallDist |-> clamped ]

\* The ray of column col: the cell the DDA stops in and the perpWallDist
\* stored in g_zBuffer[col], in position units.  perpWallDist starts at
\* MAX_RENDER_DISTANCE and the loop assigns it that value only, so the test
\* "perpWallDist == MAX_RENDER_DISTANCE" after the loop decides.
CastRay(m, player, col) ==
  LET rdx == RayDirX(player, col)
      rdy == RayDirY(player, col)
      mapX == Trunc(player.x)
      mapY == Trunc(player.y)
      stepX == IF rdx < 0 THEN -1 ELSE 1
      stepY == IF rdy < 0 THEN -1 ELSE 1
      fx == IF rdx < 0 THEN player.x - mapX * SCALE ELSE mapX * SCALE + SCALE - player.x
      fy == IF rdy < 0 THEN mapY * SCALE + SCALE - player.y ELSE player.y - mapY * SCALE
      r == DDA(m, [ mapX |-> mapX, mapY |-> mapY, kx |-> 0, ky |-> 0, side |-> 1,
                    outOfBounds |-> FALSE ],
               fx, fy, rdx, rdy, stepX, stepY)
      maxDist == MAX_RENDER_DISTANCE * SCALE
      afterLoop == IF r.outOfBounds THEN maxDist ELSE maxDist
      facePerp ==
        IF r.side = 0
          THEN IF rdx = 0 THEN maxDist
               ELSE SDiv((r.mapX * SCALE - player.x + ((1 - stepX) \div 2) * SCALE) * TRIG_ONE, rdx)
          ELSE IF rdy = 0 THEN maxDist
               ELSE SDiv((r.mapY * SCALE - player.y + ((1 - stepY) \div 2) * SCALE) * TRIG_ONE, rdy)
      perp == IF afterLoop = maxDist THEN afterLoop ELSE facePerp
      clamped == IF perp < 1 THEN 1 ELSE IF perp > maxDist THEN maxDist ELSE perp
  IN  [ mapX |-> r.mapX, mapY |-> r.mapY, side |-> r.side, steps |-> r.kx + r.ky,
        outOfBounds |-> r.outOfBounds, perpWallDist |-> clamped ]

\* g_zBuffer after the wall pass.
zBuffer(m, player) ==
  [ col \in 0 .. SCREEN_WIDTH - 1 |-> CastRay(m, player, col).perpWallDist ]

\* ---- the sprite pass and the projectile pass.
\* transformX and transformY of the point (x, y), in position units.
CameraTransform(player, x, y) ==
  LET relX == x - player.x
      relY == y - player.y
  IN  [ transformX |-> SDiv(relX * Cos(player.angle) + relY * Sin(player.angle), TRIG_ONE),
        transformY |-> SDiv(relY * Cos(player.angle) - relX * Sin(player.angle), TRIG_ONE) ]

\* (int)((SCREEN_WIDTH / 2) * (1 + transformX / transformY)), transformY > 0.
ScreenX(tr) ==
  SDiv((SCREEN_WIDTH \div 2) * (tr.transformY + tr.transformX), tr.transformY)

\* The stripes drawStartX .. drawEndX after the two clamps.
StripeRange(screenX, width) ==
  LET drawStartX == screenX - width \div 2
      drawEndX == drawStartX + width
  IN  { c \in 0 .. SCREEN_WIDTH - 1 : drawStartX <= c /\ c <= drawEndX }

\* ProjectileStripes without the Z-buffer test.
ProjectileStripes_NoDepthTest(zb, player, p) ==
  LET tr == CameraTransform(player, p.x, p.y)
  IN  IF ~p.isActive \/ tr.transformY <= 1 THEN {}
      ELSE StripeRange(ScreenX(tr), (SCREEN_WIDTH * SCALE) \div (tr.transformY * 2))

\* The screen columns in which projectile p is drawn ('*'); zb is g_zBuffer.
\* Every stripe has rows to draw, SCREEN_HEIGHT / 2 among them.
ProjectileStripes(zb, player, p) ==
  LET tr == CameraTransform(player, p.x, p.y)
  IN  IF ~p.isActive \/ tr.transformY <= 1 THEN {}
      ELSE { c \in StripeRange(ScreenX(tr), (SCREEN_WIDTH * SCALE) \div (tr.transformY * 2)) :
               tr.transformY < zb[c] }

\* The screen columns in which sprite s is drawn; s.distToPlayer is the
\* squared distance of the distance pass, -1 for an inactive sprite.
SpriteStripes(zb, player, s) ==
  LET tr == CameraTransform(player, s.x, s.y)
  IN  IF \/ ~s.isActive
         \/ s.distToPlayer > Sq(MAX_RENDER_DISTANCE * SCALE)
         \/ s.distToPlayer < Sq(SCALE \div 10)
         \/ tr.transformY <= 0
        THEN {}
      ELSE { c \in StripeRange(ScreenX(tr), (SCREEN_WIDTH * SCALE) \div tr.transformY) :
               tr.transformY < zb[c] }

\* The glyph renderGame draws for sprite s: an enemy is 'E' while its health
\* is above 30 and 'e' below.
SpriteGlyph(s) ==
  IF s.isEnemy THEN (IF s.health > 30 THEN "E" ELSE "e") ELSE s.character

\* compareSprites(a, b): 1, -1 or 0.
compareSprites(a, b) ==
  IF a.distToPlayer < b.distToPlayer THEN 1
  ELSE IF a.distToPlayer > b.distToPlayer THEN -1
  ELSE 0

\* The orders of the slots in S that qsort may produce: each next element
\* is one that compareSprites puts after none of the remaining ones.  The
\* order of elements that compare equal is unspecified.
RECURSIVE SortOrders(_, _)
SortOrders(sprites, S) ==
  IF S = {} THEN { << >> }
  ELSE UNION { { << i >> \o rest : rest \in SortOrders(sprites, S \ {i}) } :
               i \in { k \in S : \A l \in S : compareSprites(sprites[k], sprites[l]) <= 0 } }

\* The arrays qsort(g_sprites, g_numSprites, ..) may leave.
SortOutcomes(sprites) ==
  { [ i \in DOMAIN sprites |-> sprites[ord[i]] ] : ord \in SortOrders(sprites, DOMAIN sprites) }


\* ------------------------------------------------------------ initial states
\* Sprite records as a play-through leaves them.
Collectible(x, y, active) ==
  [ x |-> x, y |-> y, character |-> "C", isActive |-> active, distToPlayer |-> 0,
    isEnemy |-> FALSE, health |-> 0, attackCooldown |-> 0, lastAttackTime |-> 0 ]

Enemy(x, y, active, health, lastAttack) ==
  [ x |-> x, y |-> y, character |-> "E", isActive |-> active, distToPlayer |-> 0,
    isEnemy |-> TRUE, health |-> health, attackCooldown |-> 2,
    lastAttackTime |-> lastAttack ]

Playing(x, y, angle, health, score) ==
  [ x |-> x, y |-> y, angle |-> angle, health |-> health, score |-> score,
    moveSpeed |-> PLAYER_MOVE_SPEED_BASE, rotSpeed |-> PLAYER_ROT_SPEED_BASE ]

NoProjectiles == [ i \in 1 .. MAX_PROJECTILES |-> ZeroProjectile ]

\* Process start: the zero-initialised globals, g_currentState MENU.
FreshStart ==
  [ state |-> GAME_STATE_MENU, clock |-> 0, player |-> ZeroPlayer,
    sprites |-> << >>, projectiles |-> NoProjectiles ]

\* The top of the second iteration after 'p' in the first: initializeGame,
\* one updateGame and one renderGame have run.
GameStarted ==
  LET g == initializeGame(MapRows, NoProjectiles)
      u == updateGame(MapRows, g.player, g.sprites, g.projectiles, DtShort, DtShort)
  IN  [ state |-> GAME_STATE_PLAYING, clock |-> DtShort, player |-> u.player,
        sprites |-> CHOOSE s \in SortOutcomes(WithDistances(u.sprites, u.player)) : TRUE,
        projectiles |-> u.projectiles ]

\* The player has walked down the west corridor to (2.56, 8.50) and waited:
\* the enemy from (9,8) stands 1.39 away and attacked once at 6.92 s, the
\* enemy from (1,18) has just come within 1.34, the third is held by a wall.
Duel ==
  [ state |-> GAME_STATE_PLAYING, clock |-> 872,
    player |-> Playing(256, 850, 10, 90, 0),
    sprites |-> << Collectible(1850, 150, TRUE), Enemy(1174, 1404, TRUE, 50, 0),
                   Collectible(950, 1550, TRUE), Collectible(750, 450, TRUE),
                   Enemy(395, 839, TRUE, 50, 692), Enemy(241, 983, TRUE, 50, 0) >>,
    projectiles |-> NoProjectiles ]

\* The same stand kept up to 17.53 s: nine attacks taken, the last two by
\* both enemies in the iteration at 15.53 s.
LastStand ==
  [ state |-> GAME_STATE_PLAYING, clock |-> 1753,
    player |-> Playing(256, 850, 10, 10, 0),
    sprites |-> << Collectible(1850, 150, TRUE), Enemy(1174, 1404, TRUE, 50, 0),
                   Collectible(950, 1550, TRUE), Collectible(750, 450, TRUE),
                   Enemy(395, 839, TRUE, 50, 1553), Enemy(241, 983, TRUE, 50, 1553) >>,
    projectiles |-> NoProjectiles ]

\* Two enemies shot, the three collectibles taken, the third enemy hit once
\* and 2.77 ahead of the player, who fired again in the last iteration.
AlmostWon ==
  [ state |-> GAME_STATE_PLAYING, clock |-> 4088,
    player |-> Playing(449, 1450, 1544, 60, 130),
    sprites |-> << Enemy(726, 1457, TRUE, 25, 3344), Collectible(950, 1550, FALSE),
                   Collectible(1850, 150, FALSE), Collectible(750, 450, FALSE),
                   Enemy(395, 839, FALSE, 0, 902), Enemy(241, 983, FALSE, 0, 882) >>,
    projectiles |->
      << [ x |-> 549, y |-> 1453, dirX |-> 1000, dirY |-> 27, speed |-> 10,
           isActive |-> TRUE ],
         [ x |-> 953, y |-> 787, dirX |-> 996, dirY |-> -89, speed |-> 10,
           isActive |-> FALSE ],
         ZeroProjectile, ZeroProjectile, ZeroProjectile >> ]

\* The player has walked along row 1 to (17.42, 1.50), 1.08 short of the
\* collectible at (18.5, 1.5); nothing has been collected or shot.
NearItem ==
  [ state |-> GAME_STATE_PLAYING, clock |-> 689,
    player |-> Playing(1742, 150, 1585, 100, 0),
    sprites |-> << Enemy(407, 1242, TRUE, 50, 0), Collectible(950, 1550, TRUE),
                   Enemy(1552, 1263, TRUE, 50, 0), Enemy(893, 800, TRUE, 50, 0),
                   Collectible(750, 450, TRUE), Collectible(1850, 150, TRUE) >>,
    projectiles |-> NoProjectiles ]

\* The player has walked to (2.5, 1.5), turned along the corridor of row 1
\* and fired in five consecutive iterations of 0.1 s: every slot is in flight.
Volley ==
  [ state |-> GAME_STATE_PLAYING, clock |-> 241,
    player |-> Playing(250, 151, 1560, 100, 0),
    sprites |-> << Enemy(1682, 1676, TRUE, 50, 0), Collectible(1850, 150, TRUE),
                   Collectible(950, 1550, TRUE), Enemy(164, 1609, TRUE, 50, 0),
                   Enemy(893, 801, TRUE, 50, 0), Collectible(750, 450, TRUE) >>,
    projectiles |->
      [ i \in 1 .. MAX_PROJECTILES |->
          [ x |-> 250 + 100 * (6 - i), y |-> 151 + (6 - i),
            dirX |-> 1000, dirY |-> 11, speed |-> 10, isActive |-> TRUE ] ] ]

\* The player has turned from the start pose to angle pi, facing row 0.
FacingRowZero ==
  [ state |-> GAME_STATE_PLAYING, clock |-> 95,
    player |-> Playing(250, 250, M_PI, 100, 0),
    sprites |-> << Enemy(1782, 1782, TRUE, 50, 0), Collectible(1850, 150, TRUE),
                   Enemy(155, 1754, TRUE, 50, 0), Collectible(950, 1550, TRUE),
                   Enemy(892, 801, TRUE, 50, 0), Collectible(750, 450, TRUE) >>,
    projectiles |-> NoProjectiles ]

\* The player stands at (12.5, 1.5) and has fired down the open columns of
\* the map 1.4 s ago: the projectile is 14 cells ahead.
LongShot ==
  [ state |-> GAME_STATE_PLAYING, clock |-> 730,
    player |-> Playing(1249, 150, 10, 100, 0),
    sprites |-> << Collectible(950, 1550, TRUE), Enemy(416, 1196, TRUE, 50, 0),
                   Enemy(1506, 1226, TRUE, 50, 0), Enemy(893, 800, TRUE, 50, 0),
                   Collectible(1850, 150, TRUE), Collectible(750, 450, TRUE) >>,
    projectiles |->
      [ i \in 1 .. MAX_PROJECTILES |->
          IF i = 1 THEN [ x |-> 1264, y |-> 1550, dirX |-> 10, dirY |-> 1000,
                          speed |-> 10, isActive |-> TRUE ]
          ELSE ZeroProjectile ] ]

\* The player has walked down the open columns to (16.64, 8.52) and looks
\* along row 8: the collectibles at (9.5, 15.5) and (7.5, 4.5) are both
\* 9.98499 away.
EqualDistance ==
  [ state |-> GAME_STATE_PLAYING, clock |-> 1022,
    player |-> Playing(1664, 852, HALF_PI, 100, 0),
    sprites |-> << Enemy(499, 1171, TRUE, 50, 0), Collectible(950, 1550, TRUE),
                   Collectible(750, 450, TRUE), Collectible(1850, 150, TRUE),
                   Enemy(1126, 813, TRUE, 50, 0), Enemy(1497, 973, TRUE, 50, 0) >>,
    projectiles |-> NoProjectiles ]

\* The player has turned left at the start position until the angle passed
\* zero by less than the rounding of a float: g_player.angle is (float)(2*pi).
FullTurn ==
  [ state |-> GAME_STATE_PLAYING, clock |-> 786,
    player |-> Playing(250, 250, TWO_PI, 100, 0),
    sprites |-> << Collectible(1850, 150, TRUE), Collectible(950, 1550, TRUE),
                   Enemy(1293, 1293, TRUE, 50, 0), Enemy(894, 802, TRUE, 50, 0),
                   Enemy(199, 1065, TRUE, 50, 0), Collectible(750, 450, TRUE) >>,
    projectiles |-> NoProjectiles ]

\* The player stands at (11.31, 7.30) in the open columns and looks across
\* the wall of row 7 at the enemy held at (8.93, 8.00) below it.
ShotAtWall ==
  [ state |-> GAME_STATE_PLAYING, clock |-> 905,
    player |-> Playing(1131, 730, 4944, 100, 0),
    sprites |-> << Collectible(1850, 150, TRUE), Collectible(950, 1550, TRUE),
                   Enemy(497, 1164, TRUE, 50, 0), Collectible(750, 450, TRUE),
                   Enemy(1415, 1075, TRUE, 50, 0), Enemy(893, 800, TRUE, 50, 0) >>,
    projectiles |-> NoProjectiles ]

\* The stand of AlmostWon without the second shot, kept up to 52.68 s: the
\* last enemy, hit once, stands 1.47 away and has attacked five times, the
\* last time at 50.68 s; the player, at health 10, faces it.
PhotoFinish ==
  [ state |-> GAME_STATE_PLAYING, clock |-> 5268,
    player |-> Playing(449, 1450, 1544, 10, 130),
    sprites |-> << Enemy(596, 1454, TRUE, 25, 5068), Collectible(950, 1550, FALSE),
                   Collectible(1850, 150, FALSE), Collectible(750, 450, FALSE),
                   Enemy(395, 839, FALSE, 0, 902), Enemy(241, 983, FALSE, 0, 882) >>,
    projectiles |->
      << [ x |-> 1351, y |-> 1414, dirX |-> -996, dirY |-> -94, speed |-> 10,
           isActive |-> FALSE ],
         [ x |-> 953, y |-> 787, dirX |-> 996, dirY |-> -89, speed |-> 10,
           isActive |-> FALSE ],
         ZeroProjectile, ZeroProjectile, ZeroProjectile >> ]

\* The player has drawn the two enemies of the west into the corridor along
\* column 1 and stands at its north end, at its last 10 health, facing them:
\* they stand 0.07 apart, both 1.48 away, and attacked at 19.49 s and 20.29 s.
Bunched ==
  [ state |-> GAME_STATE_PLAYING, clock |-> 2029,
    player |-> Playing(150, 199, 94, 10, 0),
    sprites |-> << Collectible(1850, 150, TRUE), Enemy(1166, 1400, TRUE, 50, 0),
                   Collectible(950, 1550, TRUE), Collectible(750, 450, TRUE),
                   Enemy(165, 347, TRUE, 50, 1949), Enemy(158, 346, TRUE, 50, 2029) >>,
    projectiles |-> NoProjectiles ]

\* The states the loop starts from: process start and twelve states of play,
\* each at the top of a loop iteration (the last renderGame has sorted
\* g_sprites and set every distToPlayer).
Scenes ==
  { FreshStart, GameStarted, FacingRowZero, NearItem, Volley, LongShot, EqualDistance,
    FullTurn, ShotAtWall, Duel, LastStand, AlmostWon, Bunched }

SceneSprites(sc) ==
  IF sc.state = GAME_STATE_PLAYING THEN WithDistances(sc.sprites, sc.player)
  ELSE sc.sprites

Init ==
  /\ g_map = MapRows
  /\ \E sc \in Scenes :
       /\ g_currentState = sc.state
       /\ g_player = sc.player
       /\ g_sprites = SceneSprites(sc)
       /\ g_projectiles = sc.projectiles
       /\ screen = sc.state
       /\ g_lastFrameTime = sc.clock
  /\ deltaTime = 0
  /\ input = NoKey
  /\ pc = "input"
  /\ tick = 0

\* ------------------------------------------------------------ main loop
\* The top of the loop: clock() has advanced by d, read() delivers key.
ReadFrame(key, d) ==
  /\ pc = "input"
  /\ tick < MaxTicks
  /\ g_lastFrameTime' = g_lastFrameTime + d
  /\ deltaTime' = d
  /\ input' = key

\* processInput, case GAME_STATE_MENU.
InputMenu ==
  /\ g_currentState = GAME_STATE_MENU
  /\ \E key \in Keys, d \in DtSet :
       /\ ReadFrame(key, d)
       /\ IF key \in {"p", "P"}
            THEN LET g == initializeGame(g_map, g_projectiles)
                 IN  /\ g_player' = g.player
                     /\ g_sprites' = g.sprites
                     /\ g_projectiles' = g.projectiles
                     /\ g_currentState' = GAME_STATE_PLAYING
                     /\ pc' = "update"
            ELSE /\ UNCHANGED << g_player, g_sprites, g_projectiles, g_currentState >>
                 /\ pc' = IF key \in {"x", "X"} THEN "exited" ELSE "update"
  /\ UNCHANGED << g_map, tick, screen >>

\* processInput, case GAME_STATE_PLAYING.
InputPlaying ==
  /\ g_currentState = GAME_STATE_PLAYING
  /\ \E key \in Keys, d \in DtSet :
       /\ ReadFrame(key, d)
       /\ IF g_player.health <= 0
            THEN /\ g_currentState' = GAME_STATE_GAME_OVER
                 /\ UNCHANGED << g_player, g_projectiles >>
            ELSE LET r == PlayingInput(g_map, g_player, g_projectiles, key, d)
                 IN  /\ g_player' = r.player
                     /\ g_projectiles' = r.projectiles
                     /\ g_currentState' = r.state
  /\ pc' = "update"
  /\ UNCHANGED << g_map, g_sprites, tick, screen >>

\* processInput, case GAME_STATE_GAME_OVER and case GAME_STATE_WIN.
InputEnd ==
  /\ g_currentState \in {GAME_STATE_GAME_OVER, GAME_STATE_WIN}
  /\ \E key \in Keys, d \in DtSet :
       /\ ReadFrame(key, d)
       /\ IF key \in {"r", "R"}
            THEN LET g == initializeGame(g_map, g_projectiles)
                 IN  /\ g_player' = g.player
                     /\ g_sprites' = g.sprites
                     /\ g_projectiles' = g.projectiles
                     /\ g_currentState' = GAME_STATE_PLAYING
                     /\ pc' = "update"
            ELSE /\ UNCHANGED << g_player, g_sprites, g_projectiles, g_currentState >>
                 /\ pc' = IF key \in {"x", "X"} THEN "exited" ELSE "update"
  /\ UNCHANGED << g_map, tick, screen >>

\* UpdateGame without the test of g_currentState: the sprites and the
\* projectiles are updated in every state.
UpdateGame_EveryState ==
  /\ pc = "update"
  /\ LET u == updateGame(g_map, g_player, g_sprites, g_projectiles,
                         deltaTime, g_lastFrameTime)
     IN  /\ g_player' = u.player
         /\ g_sprites' = u.sprites
         /\ g_projectiles' = u.projectiles
         /\ g_currentState' = IF g_currentState = GAME_STATE_PLAYING THEN u.state
                              ELSE g_currentState
  /\ input' = NoKey
  /\ pc' = "render"
  /\ UNCHANGED << g_map, g_lastFrameTime, deltaTime, tick, screen >>

\* updateGame(deltaTime); processInput has returned, its input is gone.
UpdateGame ==
  /\ pc = "update"
  /\ IF g_currentState = GAME_STATE_PLAYING
       THEN LET u == updateGame(g_map, g_player, g_sprites, g_projectiles,
                                deltaTime, g_lastFrameTime)
            IN  /\ g_player' = u.player
                /\ g_sprites' = u.sprites
                /\ g_projectiles' = u.projectiles
                /\ g_currentState' = u.state
       ELSE UNCHANGED << g_player, g_sprites, g_projectiles, g_currentState >>
  /\ input' = NoKey
  /\ pc' = "render"
  /\ UNCHANGED << g_map, g_lastFrameTime, deltaTime, tick, screen >>

\* The end of the loop body after a screen has been drawn.
EndFrame ==
  /\ pc = "render"
  /\ pc' = "input"
  /\ tick' = tick + 1
  /\ screen' = g_currentState
  /\ UNCHANGED << g_map, g_currentState, g_player, g_projectiles,
                  g_lastFrameTime, deltaTime, input >>

RenderMenu ==
  /\ g_currentState = GAME_STATE_MENU
  /\ EndFrame
  /\ UNCHANGED g_sprites

\* renderGame: the distance pass and the sort of g_sprites.
RenderGame ==
  /\ g_currentState = GAME_STATE_PLAYING
  /\ EndFrame
  /\ g_sprites' \in SortOutcomes(WithDistances(g_sprites, g_player))

RenderGameOver ==
  /\ g_currentState = GAME_STATE_GAME_OVER
  /\ EndFrame
  /\ UNCHANGED g_sprites

RenderWinScreen ==
  /\ g_currentState = GAME_STATE_WIN
  /\ EndFrame
  /\ UNCHANGED g_sprites

Next ==
  \/ InputMenu
  \/ InputPlaying
  \/ InputEnd
  \/ UpdateGame
  \/ RenderMenu
  \/ RenderGame
  \/ RenderGameOver
  \/ RenderWinScreen

Spec == Init /\ [][Next]_vars


\* The same loop over its last RenderTicks iterations: the specification
\* under which the frames renderGame draws are examined.
InitRender ==
  /\ g_map = MapRows
  /\ \E sc \in Scenes :
       /\ g_currentState = sc.state
       /\ g_player = sc.player
       /\ g_sprites = SceneSprites(sc)
       /\ g_projectiles = sc.projectiles
       /\ screen = sc.state
       /\ g_lastFrameTime = sc.clock
  /\ deltaTime = 0
  /\ input = NoKey
  /\ pc = "input"
  /\ tick = MaxTicks - RenderTicks

SpecRender == InitRender /\ [][Next]_vars

\* ------------------------------------------------------------ endgames
\* The same loop over its last EndgameTicks iterations, entered late in a
\* game: the player is at its last 10 health, or one enemy is left.
EndgameScenes == { LastStand, AlmostWon, PhotoFinish }

InitEndgame ==
  /\ g_map = MapRows
  /\ \E sc \in EndgameScenes :
       /\ g_currentState = sc.state
       /\ g_player = sc.player
       /\ g_sprites = SceneSprites(sc)
       /\ g_projectiles = sc.projectiles
       /\ screen = sc.state
       /\ g_lastFrameTime = sc.clock
  /\ deltaTime = 0
  /\ input = NoKey
  /\ pc = "input"
  /\ tick = MaxTicks - EndgameTicks

SpecEndgame == InitEndgame /\ [][Next]_vars

\* ------------------------------------------------------------ flights
\* The loop while it stays in PLAYING, followed long enough for a projectile
\* to cross the map: the player fires or turns during the first FireTicks
\* iterations, each 0.1 s or 0.2 s long, and then lets go of the keys while
\* the iterations keep the length of the last one.
FlightScenes == { GameStarted, Volley, LongShot, ShotAtWall }

FlightKeys == { "f", "q", NoKey }

InitFlight ==
  /\ g_map = MapRows
  /\ \E sc \in FlightScenes :
       /\ g_currentState = sc.state
       /\ g_player = sc.player
       /\ g_sprites = SceneSprites(sc)
       /\ g_projectiles = sc.projectiles
       /\ screen = sc.state
       /\ g_lastFrameTime = sc.clock
  /\ deltaTime = 0
  /\ input = NoKey
  /\ pc = "input"
  /\ tick = 0

\* processInput, case GAME_STATE_PLAYING, with the keys of a flight.
FlightInput ==
  /\ g_currentState = GAME_STATE_PLAYING
  /\ pc = "input"
  /\ tick < FlightTicks
  /\ \E key \in (IF tick < FireTicks THEN FlightKeys ELSE {NoKey}),
        d \in (IF tick < FireTicks THEN DtSet ELSE {deltaTime}) :
       /\ g_lastFrameTime' = g_lastFrameTime + d
       /\ deltaTime' = d
       /\ input' = key
       /\ IF g_player.health <= 0
            THEN /\ g_currentState' = GAME_STATE_GAME_OVER
                 /\ UNCHANGED << g_player, g_projectiles >>
            ELSE LET r == PlayingInput(g_map, g_player, g_projectiles, key, d)
                 IN  /\ g_player' = r.player
                     /\ g_projectiles' = r.projectiles
                     /\ g_currentState' = r.state
  /\ pc' = "update"
  /\ UNCHANGED << g_map, g_sprites, tick, screen >>

NextFlight ==
  \/ FlightInput
  \/ UpdateGame
  \/ RenderGame

\* The states in which NextFlight has a step to take.
FlightEnabled ==
  \/ pc = "input" /\ g_currentState = GAME_STATE_PLAYING /\ tick < FlightTicks
  \/ pc = "update"
  \/ pc = "render" /\ g_currentState = GAME_STATE_PLAYING

\* The loop moves on to its next call: every step of NextFlight is one.
LoopStep ==
  /\ FlightEnabled
  /\ pc' \in {"input", "update", "render"}
  /\ pc' # pc

\* while (1): the loop never stops by itself, so a call that can be made
\* is made.
SpecFlight == InitFlight /\ [][NextFlight]_vars /\ WF_pc(LoopStep)

\* ------------------------------------------------------------ a play-through
\* One game played from the menu to the win screen: the bytes read() delivers
\* and the length of each iteration in hundredths of a second, iteration by
\* iteration.  The player starts the game, waits for the two enemies that come
\* for it and shoots them, collects the item of the east, shoots the third
\* enemy, collects the item of the south, and enters the walled room of the
\* north across the corner of wall cell (11,3).
Rep(key, d, n) == [ i \in 1 .. n |-> << key, d >> ]

WinScript ==
  Rep("p", 1, 1) \o Rep("q", 31, 1) \o Rep("w", 20, 10) \o
  Rep(NoKey, 20, 32) \o Rep("f", 10, 3) \o Rep("e", 20, 3) \o
  Rep("e", 6, 1) \o Rep("f", 10, 3) \o Rep("e", 20, 3) \o
  Rep("w", 20, 8) \o Rep("q", 1, 1) \o Rep("w", 20, 3) \o Rep("q", 2, 1) \o
  Rep("w", 10, 1) \o Rep("q", 20, 3) \o Rep("w", 20, 14) \o
  Rep("q", 1, 1) \o Rep("w", 20, 2) \o Rep("w", 13, 1) \o
  Rep("w", 20, 6) \o Rep("e", 1, 1) \o Rep("w", 20, 3) \o Rep("e", 2, 1) \o
  Rep("w", 4, 1) \o Rep("q", 20, 3) \o Rep("q", 7, 1) \o
  Rep("w", 20, 21) \o Rep("w", 14, 1) \o Rep("q", 20, 3) \o
  Rep("q", 5, 1) \o Rep("f", 10, 1) \o Rep(NoKey, 10, 7) \o
  Rep("f", 10, 1) \o Rep(NoKey, 10, 3) \o Rep("e", 4, 1) \o
  Rep("w", 20, 6) \o Rep("q", 1, 1) \o Rep("w", 20, 2) \o Rep("w", 6, 1) \o
  Rep("e", 11, 1) \o Rep("w", 20, 4) \o Rep("e", 1, 1) \o
  Rep("w", 10, 1) \o Rep("e", 20, 6) \o Rep("e", 5, 1) \o
  Rep("w", 20, 4) \o Rep("q", 1, 1) \o Rep("w", 10, 1) \o
  Rep("e", 20, 2) \o Rep("e", 13, 1) \o Rep("w", 20, 7) \o
  Rep("e", 1, 1) \o Rep("w", 20, 2) \o Rep("e", 5, 1) \o Rep("w", 3, 1) \o
  Rep("q", 4, 1) \o Rep("w", 20, 6) \o Rep("q", 1, 1) \o Rep("w", 20, 4) \o
  Rep("w", 10, 1) \o Rep("e", 20, 4) \o Rep("e", 13, 1) \o
  Rep("w", 28, 1) \o Rep("q", 20, 1) \o Rep("q", 11, 1) \o
  Rep("w", 25, 1) \o Rep("e", 8, 1) \o Rep("w", 20, 5) \o Rep("w", 17, 1)

\* The loop entered at process start: the menu is up, nothing is placed.
InitWalk ==
  /\ g_map = MapRows
  /\ g_currentState = FreshStart.state
  /\ g_player = FreshStart.player
  /\ g_sprites = FreshStart.sprites
  /\ g_projectiles = FreshStart.projectiles
  /\ screen = FreshStart.state
  /\ g_lastFrameTime = FreshStart.clock
  /\ deltaTime = 0
  /\ input = NoKey
  /\ pc = "input"
  /\ tick = 0

\* The top of the loop during the play-through.
ReadScript ==
  /\ pc = "input"
  /\ tick < Len(WinScript)
  /\ g_lastFrameTime' = g_lastFrameTime + WinScript[tick + 1][2]
  /\ deltaTime' = WinScript[tick + 1][2]
  /\ input' = WinScript[tick + 1][1]

\* processInput, case GAME_STATE_MENU, with the byte of the play-through.
WalkMenu ==
  /\ g_currentState = GAME_STATE_MENU
  /\ ReadScript
  /\ IF input' \in {"p", "P"}
       THEN LET g == initializeGame(g_map, g_projectiles)
            IN  /\ g_player' = g.player
                /\ g_sprites' = g.sprites
                /\ g_projectiles' = g.projectiles
                /\ g_currentState' = GAME_STATE_PLAYING
                /\ pc' = "update"
       ELSE /\ UNCHANGED << g_player, g_sprites, g_projectiles, g_currentState >>
            /\ pc' = IF input' \in {"x", "X"} THEN "exited" ELSE "update"
  /\ UNCHANGED << g_map, tick, screen >>

\* processInput, case GAME_STATE_PLAYING, with the byte of the play-through.
WalkPlaying ==
  /\ g_currentState = GAME_STATE_PLAYING
  /\ ReadScript
  /\ IF g_player.health <= 0
       THEN /\ g_currentState' = GAME_STATE_GAME_OVER
            /\ UNCHANGED << g_player, g_projectiles >>
       ELSE LET r == PlayingInput(g_map, g_player, g_projectiles,
                                  WinScript[tick + 1][1], WinScript[tick + 1][2])
            IN  /\ g_player' = r.player
                /\ g_projectiles' = r.projectiles
                /\ g_currentState' = r.state
  /\ pc' = "update"
  /\ UNCHANGED << g_map, g_sprites, tick, screen >>

NextWalk ==
  \/ WalkMenu
  \/ WalkPlaying
  \/ UpdateGame
  \/ RenderGame
  \/ RenderWinScreen

SpecWalk == InitWalk /\ [][NextWalk]_vars

\* ============================================================ claims
Sprites == DOMAIN g_sprites
IsEnemy(i) == g_sprites[i].isEnemy
IsCollectible(i) == ~g_sprites[i].isEnemy

\* A step of updateGame.
UpdateStep == pc = "update" /\ pc' = "render"

\* ------------------------------------------------------------ C1
\* C1: the game-over test follows the enemy AI and the projectiles of the
\* same iteration: whenever the state is PLAYING the player's health is
\* positive, a health of 0 or less outside the menu means GAME_OVER, and the
\* frame drawn by an iteration is the screen of the state it ended in, so
\* the game view is never drawn with health <= 0.
C1_GameOverSameTick ==
  /\ g_currentState = GAME_STATE_PLAYING => g_player.health > 0
  /\ (g_player.health <= 0 /\ g_currentState # GAME_STATE_MENU)
       => g_currentState = GAME_STATE_GAME_OVER
  /\ (pc = "input" /\ tick > 0) => screen = g_currentState
  /\ (pc = "input" /\ screen = GAME_STATE_PLAYING) => g_player.health > 0

\* The iteration that took the last health has drawn the game-over screen.
C1_Witness ==
  /\ pc = "input"
  /\ tick = 1
  /\ g_player.health <= 0
  /\ g_currentState = GAME_STATE_GAME_OVER
  /\ screen = GAME_STATE_GAME_OVER

MarkerCellsOfMap ==
  { c \in (0 .. MAP_WIDTH - 1) \X (0 .. MAP_HEIGHT - 1) :
      MapRows[c[2] + 1][c[1] + 1] \in {"C", "E"} }

\* processInput restarts the game: 'r' or 'R' in GAME_OVER or WIN.
RestartStep ==
  /\ pc = "input"
  /\ g_currentState \in {GAME_STATE_GAME_OVER, GAME_STATE_WIN}
  /\ input' \in {"r", "R"}

\* C3: the restart command in GAME_OVER or WIN sets the state to PLAYING with
\* health 100, score 0 and the start pose (2.5, 2.5, pi/4), one active sprite
\* on every marked cell of the map and no other sprite (enemies at health
\* 50), every projectile slot inactive, and the map as it was.
C3_RestartReinitializes ==
  [][ RestartStep =>
        /\ g_currentState' = GAME_STATE_PLAYING
        /\ g_player'.health = 100
        /\ g_player'.score = 0
        /\ g_player'.x = 250 /\ g_player'.y = 250 /\ g_player'.angle = 785
        /\ Len(g_sprites') = Cardinality(MarkerCellsOfMap)
        /\ \A c \in MarkerCellsOfMap :
             \E i \in DOMAIN g_sprites' :
               /\ g_sprites'[i].x = c[1] * 100 + 50
               /\ g_sprites'[i].y = c[2] * 100 + 50
               /\ g_sprites'[i].isActive
               /\ g_sprites'[i].isEnemy = (MapRows[c[2] + 1][c[1] + 1] = "E")
               /\ g_sprites'[i].isEnemy => g_sprites'[i].health = 50
        /\ \A i \in DOMAIN g_projectiles' : ~g_projectiles'[i].isActive
        /\ g_map' = g_map ]_vars

\* processInput has restarted a game that a projectile in flight had won.
C3_Witness ==
  /\ pc = "update"
  /\ input \in {"r", "R"}
  /\ screen = GAME_STATE_WIN
  /\ g_currentState = GAME_STATE_PLAYING
  /\ g_player.health = 100
  /\ g_player.score = 0
  /\ \A i \in Sprites : g_sprites[i].isActive

\* ------------------------------------------------------------ C4
\* processInput reads the quit command 'x' or 'X'.
QuitStep == pc = "input" /\ pc' # "input" /\ input' \in {"x", "X"}

\* C4 as claimed: in every game state the quit command ends the process.
C4_QuitExitsEverywhere ==
  [][ QuitStep => pc' = "exited" ]_vars

\* C4, amended: in MENU, GAME_OVER and WIN the quit command ends the process;
\* in PLAYING it sets the state to MENU and the loop goes on, so that a
\* second quit command ends the process; the process ends on no other key.
C4_QuitExitsOrReturnsToMenu ==
  [][ /\ (QuitStep /\ g_currentState # GAME_STATE_PLAYING)
           => (pc' = "exited" /\ g_currentState' = g_currentState)
      /\ (QuitStep /\ g_currentState = GAME_STATE_PLAYING)
           => (pc' = "update" /\ g_currentState' = GAME_STATE_MENU)
      /\ pc' = "exited" => QuitStep ]_vars

\* The process has ended on the second quit command of a game.
C4_Witness ==
  /\ pc = "exited"
  /\ input \in {"x", "X"}
  /\ g_currentState = GAME_STATE_MENU
  /\ g_player.health > 0
  /\ tick >= 1

\* ------------------------------------------------------------ C5
\* C5: the player's health is never negative.
C5_HealthNonNegative == g_player.health >= 0

\* ------------------------------------------------------------ C6
\* C6: once the game has been initialized, the cell containing the player
\* is in the grid and is not a wall cell.
C6_PlayerInOpenCell ==
  g_player.moveSpeed > 0
    => /\ InGrid(Trunc(g_player.x), Trunc(g_player.y))
       /\ MapAt(g_map, Trunc(g_player.x), Trunc(g_player.y)) # "#"

\* ------------------------------------------------------------ C7
\* The sprites an updateGame step deactivates.
Killed == { i \in Sprites : IsEnemy(i) /\ g_sprites[i].isActive /\ ~g_sprites'[i].isActive }
Collected ==
  { i \in Sprites : IsCollectible(i) /\ g_sprites[i].isActive /\ ~g_sprites'[i].isActive }

\* C7: an enemy's health is 50, 25 or 0; it is active at 50 and at 25, where
\* it is drawn 'e', and inactive at 0; updateGame adds to the score exactly
\* 50 for every enemy it deactivates (and 10 for every collectible), and an
\* inactive enemy is left as it is whatever projectiles are in flight.
C7_TwoHitsKillOnce ==
  /\ [](\A i \in Sprites :
          IsEnemy(i) =>
            /\ g_sprites[i].health \in {0, 25, 50}
            /\ g_sprites[i].isActive <=> g_sprites[i].health > 0
            /\ g_sprites[i].health = 25 => SpriteGlyph(g_sprites[i]) = "e"
            /\ g_sprites[i].health = 50 => SpriteGlyph(g_sprites[i]) = "E")
  /\ [][ UpdateStep =>
           /\ g_player'.score = g_player.score + 50 * Cardinality(Killed)
                                               + 10 * Cardinality(Collected)
           /\ \A i \in Sprites :
                IsEnemy(i) =>
                  /\ g_sprites'[i].health <= g_sprites[i].health
                  /\ ~g_sprites[i].isActive => g_sprites'[i] = g_sprites[i] ]_vars

\* Two shots have taken an enemy from 50 to 0: it is inactive and the score,
\* 0 before the first shot, is 50.
C7_Witness ==
  /\ g_player.score = 50
  /\ \E i \in Sprites :
       IsEnemy(i) /\ ~g_sprites[i].isActive /\ g_sprites[i].health = 0

\* ------------------------------------------------------------ C8
\* initializeGame has run: 'p' in MENU, 'r' in GAME_OVER or WIN.
StartStep ==
  /\ pc = "input"
  /\ g_currentState # GAME_STATE_PLAYING
  /\ g_currentState' = GAME_STATE_PLAYING

\* C8: until the next initializeGame an inactive collectible stays inactive,
\* updateGame leaves it as it is, and the score grows by 10 for every
\* collectible deactivated in the step and by nothing else but kills; no
\* other step changes the score.
C8_PickupOnce ==
  [][ /\ ~StartStep =>
           \A i \in Sprites :
             (IsCollectible(i) /\ ~g_sprites[i].isActive) =>
               \E j \in DOMAIN g_sprites' :
                 /\ ~g_sprites'[j].isEnemy
                 /\ ~g_sprites'[j].isActive
                 /\ g_sprites'[j].x = g_sprites[i].x
                 /\ g_sprites'[j].y = g_sprites[i].y
      /\ UpdateStep =>
           /\ \A i \in Sprites :
                (IsCollectible(i) /\ ~g_sprites[i].isActive)
                  => g_sprites'[i] = g_sprites[i]
           /\ Killed = {} => g_player'.score = g_player.score + 10 * Cardinality(Collected)
      /\ (~UpdateStep /\ ~StartStep) => g_player'.score = g_player.score ]_vars

\* The collectible at (18.5, 1.5) was picked up in an earlier iteration and
\* updateGame has run again with the player within the pickup radius.
C8_Witness ==
  /\ pc = "render"
  /\ tick = 2
  /\ g_player.score = 10
  /\ g_player.x > 1850
  /\ \E i \in Sprites :
       /\ IsCollectible(i)
       /\ ~g_sprites[i].isActive
       /\ Dist2(g_player.x, g_player.y, g_sprites[i].x, g_sprites[i].y) < 70 * 70

\* ------------------------------------------------------------ C9
\* The enemies whose attack timestamp an updateGame step sets.
Attackers ==
  { i \in Sprites : IsEnemy(i) /\ g_sprites'[i].lastAttackTime # g_sprites[i].lastAttackTime }

\* C9: updateGame takes 10 health for every enemy that attacks and nothing
\* else changes the health during a game; an enemy attacks only when it is
\* active, the player is nearer than 1.5 and more than its cooldown (2 s) has
\* passed since its attack timestamp, and the attack sets the timestamp to
\* the time of the attack.
C9_AttackCooldown ==
  [][ /\ UpdateStep =>
           /\ g_player'.health = g_player.health - 10 * Cardinality(Attackers)
           /\ \A i \in Attackers :
                /\ g_sprites[i].isActive
                /\ Dist2(g_player.x, g_player.y, g_sprites[i].x, g_sprites[i].y) < 150 * 150
                /\ g_lastFrameTime - g_sprites[i].lastAttackTime > 2 * CLOCKS_PER_SEC
                /\ g_sprites'[i].lastAttackTime = g_lastFrameTime
      /\ (~UpdateStep /\ ~StartStep) => g_player'.health = g_player.health ]_vars

\* The enemy at (3.95, 8.39), whose last attack was at 6.92 s, has attacked
\* again in this iteration, after the enemy at (2.41, 9.83): the health,
\* 90 at 8.72 s, is 70.
C9_Witness ==
  /\ pc = "render"
  /\ g_player.health = 70
  /\ g_lastFrameTime > 692 + 2 * CLOCKS_PER_SEC
  /\ \E i \in Sprites :
       /\ IsEnemy(i)
       /\ g_sprites[i].x = 395 /\ g_sprites[i].y = 839
       /\ g_sprites[i].lastAttackTime = g_lastFrameTime

\* ------------------------------------------------------------ C10
\* C10: every active enemy is in a cell of the grid that is no wall, and
\* updateGame moves an enemy only if it is active, farther than 1.5 from the
\* player and the cell it arrives in is in the grid and no wall.
C10_EnemyStaysInOpenCells ==
  /\ [](\A i \in Sprites :
          (IsEnemy(i) /\ g_sprites[i].isActive) =>
            /\ InGrid(Trunc(g_sprites[i].x), Trunc(g_sprites[i].y))
            /\ MapAt(g_map, Trunc(g_sprites[i].x), Trunc(g_sprites[i].y)) # "#")
  /\ [][ UpdateStep =>
           \A i \in Sprites :
             (IsEnemy(i) /\ << g_sprites'[i].x, g_sprites'[i].y >>
                              # << g_sprites[i].x, g_sprites[i].y >>) =>
               /\ g_sprites[i].isActive
               /\ Dist2(g_player.x, g_player.y, g_sprites[i].x, g_sprites[i].y) > 150 * 150
               /\ InGrid(Trunc(g_sprites'[i].x), Trunc(g_sprites'[i].y))
               /\ MapAt(g_map, Trunc(g_sprites'[i].x), Trunc(g_sprites'[i].y)) # "#" ]_vars

\* After an iteration of 0.2 s the enemy at (11.74, 14.04), far from the
\* player, is where it was: its step ended in a wall.
C10_Witness ==
  /\ pc = "render"
  /\ tick = 0
  /\ deltaTime = DtLong
  /\ g_currentState = GAME_STATE_PLAYING
  /\ \E i \in Sprites :
       /\ IsEnemy(i)
       /\ g_sprites[i].isActive
       /\ g_sprites[i].x = 1174 /\ g_sprites[i].y = 1404
       /\ Dist2(g_player.x, g_player.y, g_sprites[i].x, g_sprites[i].y) > 150 * 150

\* ------------------------------------------------------------ C11
\* processInput reads the fire command while the game is played.
FireStep ==
  /\ pc = "input"
  /\ pc' = "update"
  /\ g_currentState = GAME_STATE_PLAYING
  /\ g_player.health > 0
  /\ input' \in {"f", "F"}

ActiveProjectiles == { i \in DOMAIN g_projectiles : g_projectiles[i].isActive }

\* C11: there are 5 projectile slots, so never more than 5 active
\* projectiles, and a fire command read while all 5 are active leaves every
\* slot, the player, the sprites, the state and the map as they were.
C11_PoolExhaustionNoOp ==
  /\ [](DOMAIN g_projectiles = 1 .. 5 /\ Cardinality(ActiveProjectiles) <= 5)
  /\ [][ (FireStep /\ Cardinality(ActiveProjectiles) = 5) =>
           /\ g_projectiles' = g_projectiles
           /\ g_player' = g_player
           /\ g_sprites' = g_sprites
           /\ g_currentState' = g_currentState
           /\ g_map' = g_map ]_vars

\* processInput has read 'f' with all five slots in flight: the slots are
\* those of the volley, the oldest projectile still at (7.5, 1.56).
C11_Witness ==
  /\ pc = "update"
  /\ tick = 0
  /\ input \in {"f", "F"}
  /\ Cardinality(ActiveProjectiles) = 5
  /\ g_projectiles[1].x = 750
  /\ g_projectiles[5].x = 350

\* ------------------------------------------------------------ C12
\* renderGame is about to draw the game view.
RenderGameStep ==
  pc = "render" /\ g_currentState = GAME_STATE_PLAYING /\ pc' = "input"

\* C12: in every frame of the game view, a sprite or projectile glyph is
\* written in a screen column only if the transformY of that sprite or
\* projectile is strictly less than the g_zBuffer entry of that column.
C12_OcclusionPerColumn ==
  [][ RenderGameStep =>
        LET zb == zBuffer(g_map, g_player)
            sp == WithDistances(g_sprites, g_player)
        IN  /\ \A i \in DOMAIN sp :
                 \A c \in SpriteStripes(zb, g_player, sp[i]) :
                   CameraTransform(g_player, sp[i].x, sp[i].y).transformY < zb[c]
            /\ \A i \in DOMAIN g_projectiles :
                 \A c \in ProjectileStripes(zb, g_player, g_projectiles[i]) :
                   CameraTransform(g_player, g_projectiles[i].x,
                                   g_projectiles[i].y).transformY < zb[c] ]_vars

\* A frame in which a collectible is drawn and the projectile, 16 cells
\* ahead in the middle of the view, is not.
C12_Witness ==
  /\ pc = "render"
  /\ g_currentState = GAME_STATE_PLAYING
  /\ LET zb == zBuffer(g_map, g_player)
         sp == WithDistances(g_sprites, g_player)
         tr == CameraTransform(g_player, g_projectiles[1].x, g_projectiles[1].y)
     IN  /\ g_projectiles[1].isActive
         /\ tr.transformY >= 1500
         /\ ScreenX(tr) \in 0 .. SCREEN_WIDTH - 1
         /\ ProjectileStripes(zb, g_player, g_projectiles[1]) = {}
         /\ \E i \in DOMAIN sp :
              ~sp[i].isEnemy /\ SpriteStripes(zb, g_player, sp[i]) # {}

\* ------------------------------------------------------------ C15
\* C15: in a frame drawn with the player at (2.5, 2.5), a column whose ray
\* runs straight toward row 0 (rayDirX = 0, rayDirY < 0) records the
\* distance 1.5 to the face of the wall of row 0.
C15_RayTowardRowZero ==
  [][ (RenderGameStep /\ g_player.x = 250 /\ g_player.y = 250) =>
        \A col \in 0 .. SCREEN_WIDTH - 1 :
          (RayDirX(g_player, col) = 0 /\ RayDirY(g_player, col) < 0)
            => CastRay(g_map, g_player, col).perpWallDist = 150 ]_vars

\* ------------------------------------------------------------ C13
\* Sprite s passes the tests of the sprite pass and is projected.
Projected(player, s) ==
  /\ s.isActive
  /\ s.distToPlayer <= Sq(MAX_RENDER_DISTANCE * SCALE)
  /\ s.distToPlayer >= Sq(SCALE \div 10)
  /\ CameraTransform(player, s.x, s.y).transformY > 0

\* C13: the sprite pass of every frame meets the projected sprites in
\* non-increasing distance to the player, and two of them at equal distance
\* in the order of the slots they held when the frame began (stable
\* tie-break).
C13_StableFarthestFirst ==
  [][ RenderGameStep =>
        LET before == WithDistances(g_sprites, g_player)
        IN  \A i, j \in DOMAIN g_sprites' :
              (i < j /\ Projected(g_player, g_sprites'[i])
                     /\ Projected(g_player, g_sprites'[j]))
                => /\ g_sprites'[i].distToPlayer >= g_sprites'[j].distToPlayer
                   /\ g_sprites'[i].distToPlayer = g_sprites'[j].distToPlayer
                        => \A k, l \in DOMAIN before :
                             (before[k] = g_sprites'[i] /\ before[l] = g_sprites'[j])
                               => k < l ]_vars

\* ------------------------------------------------------------ C14
\* The keys the key switch of state PLAYING has a case for.
PlayingCommands ==
  { "w", "W", "s", "S", "a", "A", "d", "D", "q", "Q", "e", "E", "f", "F", "x", "X" }

\* processInput runs with a sample (input') that its state has no command
\* for: no key or an unbound key in PLAYING with health > 0, anything but
\* start and quit in MENU, anything but restart and quit in GAME_OVER and WIN.
IgnoredInputStep ==
  /\ pc = "input"
  /\ pc' # "input"
  /\ \/ /\ g_currentState = GAME_STATE_PLAYING
        /\ g_player.health > 0
        /\ input' \notin PlayingCommands
     \/ /\ g_currentState = GAME_STATE_MENU
        /\ input' \notin {"p", "P", "x", "X"}
     \/ /\ g_currentState \in {GAME_STATE_GAME_OVER, GAME_STATE_WIN}
        /\ input' \notin {"r", "R", "x", "X"}

\* C14: processInput with such a sample leaves the game state, the player
\* (position, angle, health, score), every sprite and every projectile as
\* they were.
C14_UnrecognizedInputIgnored ==
  [][ IgnoredInputStep =>
        UNCHANGED << g_currentState, g_player, g_sprites, g_projectiles >> ]_vars

\* ------------------------------------------------------------ C18
\* The position the key asks for: newPlayerX, newPlayerY after the key
\* switch, before the axis tests.
Desired(player, key, dt) ==
  LET moveAmount == (player.moveSpeed * dt * SCALE) \div CLOCKS_PER_SEC
      alongX == SDiv(Sin(player.angle) * moveAmount, TRIG_ONE)
      alongY == SDiv(Cos(player.angle) * moveAmount, TRIG_ONE)
  IN  CASE key \in {"w", "W"} -> [ x |-> player.x + alongX, y |-> player.y + alongY ]
        [] key \in {"s", "S"} -> [ x |-> player.x - alongX, y |-> player.y - alongY ]
        [] key \in {"a", "A"} -> [ x |-> player.x + alongY, y |-> player.y - alongX ]
        [] key \in {"d", "D"} -> [ x |-> player.x - alongY, y |-> player.y + alongX ]
        [] OTHER -> [ x |-> player.x, y |-> player.y ]

\* Cell (mx, my) is in the grid and not a wall.
NotWall(mx, my) ==
  /\ 0 <= mx /\ mx < MAP_WIDTH /\ 0 <= my /\ my < MAP_HEIGHT
  /\ MapRows[my + 1][mx + 1] # "#"

\* processInput handles a key of a living player in state PLAYING.
PlayingInputStep ==
  /\ pc = "input"
  /\ pc' = "update"
  /\ g_currentState = GAME_STATE_PLAYING
  /\ g_player.health > 0

\* C18: after processInput in PLAYING, x is the desired x if cell
\* (desired x, current y) is in the grid and not a wall and the old x
\* otherwise; y is the desired y if cell (current x, desired y) is in the grid
\* and not a wall and the old y otherwise, whatever happened to x.
C18_AxisIndependentMovement ==
  [][ PlayingInputStep =>
        LET want == Desired(g_player, input', deltaTime')
        IN  /\ g_player'.x = IF NotWall(Trunc(want.x), Trunc(g_player.y))
                               THEN want.x ELSE g_player.x
            /\ g_player'.y = IF NotWall(Trunc(g_player.x), Trunc(want.y))
                               THEN want.y ELSE g_player.y ]_vars

\* Wall sliding: from (2.71, 2.71), facing pi/4, 'w' for 0.2 s asks for
\* (3.13, 3.13); cell (3, 2) is a wall and cell (2, 3) is open, so x stays and
\* y moves.
C18_Witness ==
  /\ pc = "update"
  /\ g_currentState = GAME_STATE_PLAYING
  /\ input = "w"
  /\ deltaTime = DtLong
  /\ g_player.angle = QUARTER_PI
  /\ g_player.x = 271
  /\ g_player.y = 313
  /\ LET want == Desired([ g_player EXCEPT !.y = 271 ], "w", DtLong)
     IN  /\ want.x = 313 /\ want.y = 313
         /\ ~NotWall(Trunc(want.x), 2)
         /\ NotWall(2, Trunc(want.y))

\* ------------------------------------------------------------ C19
\* C19: in a tick of updateGame an enemy loses health only to a projectile
\* that was in flight and whose position after advancing is in a cell of the
\* grid that is not a wall (and within the hit radius of the enemy): a
\* projectile stopped by a wall or the grid boundary damages no enemy.
C19_WallHitDamagesNoEnemy ==
  [][ (UpdateStep /\ g_currentState = GAME_STATE_PLAYING) =>
        \A i \in Sprites :
          (IsEnemy(i) /\ g_sprites'[i].health < g_sprites[i].health)
            => \E k \in DOMAIN g_projectiles :
                 /\ g_projectiles[k].isActive
                 /\ NotWall(Trunc(g_projectiles'[k].x), Trunc(g_projectiles'[k].y))
                 /\ Dist2(g_projectiles'[k].x, g_projectiles'[k].y,
                          g_sprites'[i].x, g_sprites'[i].y) < Sq(HIT_RADIUS) ]_vars

\* ------------------------------------------------------------ C20
\* C20: a projectile in flight while the game is PLAYING is eventually
\* inactive (it has reached a wall, the grid boundary or an enemy and its slot
\* is free again), unless the game leaves PLAYING first.
C20_ProjectilesEventuallyDeactivated ==
  \A k \in 1 .. MAX_PROJECTILES :
    (g_currentState = GAME_STATE_PLAYING /\ g_projectiles[k].isActive)
      ~> (g_currentState # GAME_STATE_PLAYING \/ ~g_projectiles[k].isActive)

\* The five shots of Volley have all ended in the wall of column 19 and the
\* game is still PLAYING.
C20_Witness ==
  /\ g_currentState = GAME_STATE_PLAYING
  /\ pc = "input"
  /\ \A k \in 1 .. MAX_PROJECTILES :
       /\ ~g_projectiles[k].isActive
       /\ Trunc(g_projectiles[k].x) = MAP_WIDTH - 1
       /\ Trunc(g_projectiles[k].y) = 1


\* C17: WIN is reachable on the built-in map.  The play-through starts a new
\* game from the menu; each of its PLAYING iterations moves the player by
\* less than one cell; and when its last iteration is over the state is WIN
\* and each of the sprites the map places, enemy or collectible, is inactive.
WalkDone == pc = "input" /\ tick = Len(WinScript)

WalkMoveStep ==
  /\ pc = "input"
  /\ pc' = "update"
  /\ g_currentState = GAME_STATE_PLAYING

C17_WinReachable ==
  /\ [](pc = "input" /\ tick = 1 =>
          /\ g_currentState = GAME_STATE_PLAYING
          /\ Len(g_sprites) = Len(initializeSprites(MapRows)))
  /\ [][WalkMoveStep =>
          Dist2(g_player.x, g_player.y, g_player'.x, g_player'.y) < Sq(SCALE)]_vars
  /\ [](WalkDone =>
          /\ g_currentState = GAME_STATE_WIN
          /\ Len(g_sprites) = Len(initializeSprites(MapRows))
          /\ \A i \in Sprites : ~g_sprites[i].isActive)

\* The win screen after the last iteration of the play-through, the player
\* standing in the walled room with every item collected and every enemy shot.
C17_Witness ==
  /\ WalkDone
  /\ g_currentState = GAME_STATE_WIN
  /\ screen = GAME_STATE_WIN
  /\ Len(g_sprites) = Len(initializeSprites(MapRows))
  /\ g_player.score = 180
  /\ \A i \in Sprites : ~g_sprites[i].isActive
  /\ Trunc(g_player.x) = 7
  /\ Trunc(g_player.y) = 4


\* ------------------------------------------------------------ C21
\* C21: a fire command read while at least one projectile slot is free
\* activates the free slot of the lowest index, puts it at the player's
\* position with the player's view direction (sin angle, cos angle), and
\* leaves every other slot as it was.
C21_FireTakesLowestFreeSlot ==
  [][ (FireStep /\ Cardinality(ActiveProjectiles) < MAX_PROJECTILES) =>
        \E k \in DOMAIN g_projectiles :
          /\ ~g_projectiles[k].isActive
          /\ \A j \in DOMAIN g_projectiles : j < k => g_projectiles[j].isActive
          /\ g_projectiles'[k].isActive
          /\ g_projectiles'[k].x = g_player.x
          /\ g_projectiles'[k].y = g_player.y
          /\ g_projectiles'[k].x = g_player'.x
          /\ g_projectiles'[k].y = g_player'.y
          /\ g_projectiles'[k].dirX = Sin(g_player.angle)
          /\ g_projectiles'[k].dirY = Cos(g_player.angle)
          /\ \A j \in DOMAIN g_projectiles :
               j # k => g_projectiles'[j] = g_projectiles[j] ]_vars

\* processInput has read 'f' in the second iteration with slots 0 and 1 in
\* flight and slots 3 and 4 free: slot 2 is the one now at the player.
C21_Witness ==
  /\ pc = "update"
  /\ g_currentState = GAME_STATE_PLAYING
  /\ input \in {"f", "F"}
  /\ g_projectiles[1].isActive
  /\ g_projectiles[2].isActive
  /\ g_projectiles[3].isActive
  /\ g_projectiles[3].x = g_player.x
  /\ g_projectiles[3].y = g_player.y
  /\ g_projectiles[1].x # g_player.x \/ g_projectiles[1].y # g_player.y
  /\ g_projectiles[2].x # g_player.x \/ g_projectiles[2].y # g_player.y
  /\ ~g_projectiles[4].isActive
  /\ ~g_projectiles[5].isActive


\* ------------------------------------------------------------ C22
\* C22: composing a frame of the game view changes neither the player nor
\* the map, and every sprite slot holds after the frame the entity it held
\* before it: same position, kind, active flag, health and attack timestamp.
C22_RenderKeepsSlots ==
  [][ RenderGameStep =>
        /\ g_player' = g_player
        /\ g_map' = g_map
        /\ DOMAIN g_sprites' = DOMAIN g_sprites
        /\ \A i \in Sprites :
             /\ g_sprites'[i].x = g_sprites[i].x
             /\ g_sprites'[i].y = g_sprites[i].y
             /\ g_sprites'[i].isEnemy = g_sprites[i].isEnemy
             /\ g_sprites'[i].character = g_sprites[i].character
             /\ g_sprites'[i].isActive = g_sprites[i].isActive
             /\ g_sprites'[i].health = g_sprites[i].health
             /\ g_sprites'[i].lastAttackTime = g_sprites[i].lastAttackTime ]_vars


\* ------------------------------------------------------------ C23
InactiveCollectibles == { i \in Sprites : IsCollectible(i) /\ ~g_sprites[i].isActive }
InactiveEnemies == { i \in Sprites : IsEnemy(i) /\ ~g_sprites[i].isActive }

\* C23: the score is always 10 for every inactive collectible plus 50 for
\* every inactive enemy; on the built-in map it is never above 180; and no
\* step but one that starts a new game makes it smaller.
C23_ScoreCountsInactive ==
  /\ [](g_player.score = 10 * Cardinality(InactiveCollectibles)
                           + 50 * Cardinality(InactiveEnemies))
  /\ [](g_player.score <= 180)
  /\ [][ ~StartStep => g_player'.score >= g_player.score ]_vars

\* updateGame has just counted the last kill: three items taken, three
\* enemies shot, 3 * 10 + 3 * 50 points.
C23_Witness ==
  /\ pc = "render"
  /\ deltaTime > 0
  /\ Cardinality(InactiveCollectibles) = 3
  /\ Cardinality(InactiveEnemies) = 3
  /\ g_player.score = 180


\* ------------------------------------------------------------ C24
\* C24: when updateGame ends an iteration with the player's health at 0 or
\* below and every collectible and every enemy inactive, the state it leaves
\* is GAME_OVER, not WIN.
C24_GameOverBeforeWin ==
  [][ ( /\ UpdateStep
        /\ g_currentState = GAME_STATE_PLAYING
        /\ g_player'.health <= 0
        /\ \A i \in DOMAIN g_sprites' : ~g_sprites'[i].isActive )
      => g_currentState' = GAME_STATE_GAME_OVER ]_vars

\* The last enemy has taken the player's last 10 health in the iteration in
\* which the player's shot killed it: game over with the full score.
C24_Witness ==
  /\ pc = "render"
  /\ screen = GAME_STATE_PLAYING
  /\ g_currentState = GAME_STATE_GAME_OVER
  /\ g_player.health <= 0
  /\ Sprites # {}
  /\ \A i \in Sprites : ~g_sprites[i].isActive


\* ------------------------------------------------------------ C25
\* The keys processInput acts on in the state the game is in, outside PLAYING.
BoundKeys ==
  IF g_currentState = GAME_STATE_MENU THEN {"p", "P", "x", "X"}
  ELSE {"r", "R", "x", "X"}

\* A step of the loop outside PLAYING that is not processInput reading a
\* start, restart or quit key.
FrozenStep ==
  /\ g_currentState # GAME_STATE_PLAYING
  /\ ~(pc = "input" /\ input' \in BoundKeys)

\* C25: outside PLAYING, an iteration that reads no start, restart or quit
\* key changes no field of the player, no sprite, no projectile and not the
\* state; and GAME_OVER and WIN are entered from PLAYING only.
C25_FrozenOutsidePlaying ==
  /\ [][ FrozenStep =>
           /\ g_player' = g_player
           /\ g_sprites' = g_sprites
           /\ g_projectiles' = g_projectiles
           /\ g_currentState' = g_currentState ]_vars
  /\ [][ ( /\ g_currentState' \in {GAME_STATE_GAME_OVER, GAME_STATE_WIN}
           /\ g_currentState' # g_currentState )
         => g_currentState = GAME_STATE_PLAYING ]_vars

\* processInput has read 'w' on the game-over screen, next to enemies that
\* are active and within reach of the player.
C25_Witness ==
  /\ pc = "update"
  /\ screen = GAME_STATE_GAME_OVER
  /\ g_currentState = GAME_STATE_GAME_OVER
  /\ input = "w"
  /\ g_player.health <= 0
  /\ \E i \in Sprites :
       /\ IsEnemy(i)
       /\ g_sprites[i].isActive
       /\ Dist2(g_player.x, g_player.y, g_sprites[i].x, g_sprites[i].y) < Sq(TOO_CLOSE)


\* ------------------------------------------------------------ C26
\* Projectile k as updateGame leaves it is within the hit radius of sprite i
\* as updateGame leaves it.
InReach(k, i) ==
  Dist2(g_projectiles'[k].x, g_projectiles'[k].y, g_sprites'[i].x, g_sprites'[i].y)
    < Sq(HIT_RADIUS)

\* The projectiles updateGame takes out of flight.
Consumed == { k \in DOMAIN g_projectiles :
                g_projectiles[k].isActive /\ ~g_projectiles'[k].isActive }

\* The hits sprite i takes in the step.
HitsTaken(i) == (g_sprites[i].health - g_sprites'[i].health) \div 25

\* The projectiles whose first enemy in reach, in slot order, can be i: no
\* enemy of a lower slot that is still active after the step is in reach.
FirstInReach(i) ==
  { k \in Consumed :
      /\ InReach(k, i)
      /\ \A j \in Sprites :
           (j < i /\ IsEnemy(j) /\ g_sprites'[j].isActive) => ~InReach(k, j) }

\* C26: a projectile is consumed by its first hit.  In every updateGame the
\* damage an enemy takes is 25 per hit, the hits of all enemies together are
\* no more than the projectiles taken out of flight, the hits of one enemy
\* are no more than the projectiles for which it is the lowest-slot active
\* enemy in reach, and no projectile left in flight is in reach of an active
\* enemy; a slot out of flight stays so until a fire command fills it with a
\* new projectile at the player's position.
C26_ConsumedByFirstHit ==
  /\ [][ (UpdateStep /\ g_currentState = GAME_STATE_PLAYING) =>
           /\ \A i \in Sprites :
                /\ g_sprites'[i].health = g_sprites[i].health - 25 * HitsTaken(i)
                /\ HitsTaken(i) >= 0
                /\ IsCollectible(i) => HitsTaken(i) = 0
                /\ HitsTaken(i) <= Cardinality(FirstInReach(i))
           /\ Cardinality({ i \in Sprites : HitsTaken(i) >= 1 })
                + Cardinality({ i \in Sprites : HitsTaken(i) >= 2 })
                <= Cardinality(Consumed)
           /\ \A i \in Sprites : HitsTaken(i) <= 2
           /\ \A k \in DOMAIN g_projectiles, i \in Sprites :
                (g_projectiles'[k].isActive /\ IsEnemy(i) /\ g_sprites'[i].isActive)
                  => ~InReach(k, i) ]_vars
  /\ [][ \A k \in DOMAIN g_projectiles :
           (~g_projectiles[k].isActive /\ g_projectiles'[k].isActive) =>
             /\ FireStep
             /\ g_projectiles'[k].x = g_player.x
             /\ g_projectiles'[k].y = g_player.y ]_vars

\* updateGame has stopped a projectile in reach of two active enemies: the
\* one in the lower slot has taken the 25, the other is at its 50.
C26_Witness ==
  /\ pc = "render"
  /\ g_currentState = GAME_STATE_PLAYING
  /\ \E k \in DOMAIN g_projectiles, i \in Sprites, j \in Sprites :
       /\ ~g_projectiles[k].isActive
       /\ g_projectiles[k].speed > 0
       /\ i < j
       /\ IsEnemy(i) /\ g_sprites[i].isActive /\ g_sprites[i].health = 25
       /\ IsEnemy(j) /\ g_sprites[j].isActive /\ g_sprites[j].health = 50
       /\ Dist2(g_projectiles[k].x, g_projectiles[k].y, g_sprites[i].x, g_sprites[i].y)
            < Sq(HIT_RADIUS)
       /\ Dist2(g_projectiles[k].x, g_projectiles[k].y, g_sprites[j].x, g_sprites[j].y)
            < Sq(HIT_RADIUS)


\* ------------------------------------------------------------ C27
\* C27: in every frame of the game view each entry of g_zBuffer is at least
\* 0.01 and at most MAX_RENDER_DISTANCE, and the entry of a column whose ray
\* left the grid is MAX_RENDER_DISTANCE.
C27_DepthWithinClamp ==
  [][ RenderGameStep =>
        \A col \in 0 .. SCREEN_WIDTH - 1 :
          LET ray == CastRay(g_map, g_player, col)
          IN  /\ zBuffer(g_map, g_player)[col] = ray.perpWallDist
              /\ ray.perpWallDist >= SCALE \div 100
              /\ ray.perpWallDist <= MAX_RENDER_DISTANCE * SCALE
              /\ ray.outOfBounds => ray.perpWallDist = MAX_RENDER_DISTANCE * SCALE ]_vars

\* A frame drawn looking east along row 1: the ray of the middle column
\* crosses 16 cells before it stops at the wall, and its entry is the cap.
C27_Witness ==
  /\ pc = "render"
  /\ g_currentState = GAME_STATE_PLAYING
  /\ Trunc(g_player.y) = 1
  /\ LET ray == CastRay(g_map, g_player, SCREEN_WIDTH \div 2)
     IN  /\ ray.steps >= MAX_RENDER_DISTANCE + 1
         /\ ray.side = 0
         /\ MapAt(g_map, ray.mapX, ray.mapY) = "#"
         /\ ray.perpWallDist = MAX_RENDER_DISTANCE * SCALE

\* ------------------------------------------------------------ C28
\* C28: the DDA loop of every column of every frame ends, after at most
\* MAP_WIDTH + MAP_HEIGHT cell steps, in a wall cell of the grid or outside
\* the grid; this includes the columns whose ray has a zero component.
C28_TraversalTerminates ==
  [][ RenderGameStep =>
        /\ InGrid(Trunc(g_player.x), Trunc(g_player.y))
        /\ \A col \in 0 .. SCREEN_WIDTH - 1 :
             LET ray == CastRay(g_map, g_player, col)
             IN  /\ ray.steps >= 1
                 /\ ray.steps <= MAP_WIDTH + MAP_HEIGHT
                 /\ IF ray.outOfBounds THEN ~InGrid(ray.mapX, ray.mapY)
                    ELSE /\ InGrid(ray.mapX, ray.mapY)
                         /\ MapAt(g_map, ray.mapX, ray.mapY) = "#" ]_vars

\* A frame with a column whose ray has rayDirX = 0: it steps in y only and
\* stops at a wall of its own column of cells.
C28_Witness ==
  /\ pc = "render"
  /\ g_currentState = GAME_STATE_PLAYING
  /\ \E col \in 0 .. SCREEN_WIDTH - 1 :
       /\ RayDirX(g_player, col) = 0
       /\ LET ray == CastRay(g_map, g_player, col)
          IN  /\ ray.mapX = Trunc(g_player.x)
              /\ ray.side = 1
              /\ ray.steps >= 1
              /\ MapAt(g_map, ray.mapX, ray.mapY) = "#"

====
